---------------------------- MODULE Spec2Model ----------------------------
(***************************************************************************)
(* Model of HttpValidator::validate                                        *)
(* (crates/secrets-core/src/validator/http.rs), of ScannerBuilder and      *)
(* Scanner (crates/secrets/src/scanner.rs), and of three parts of the      *)
(* static-analysis kernel: TsNodeBridge and the ops JavaScript calls on it *)
(* (analysis/ddsa_lib/bridge/ts_node.rs, ops.rs), LinesToIgnore            *)
(* (model/analysis.rs) and the deserializers of the `rulesets` of a        *)
(* configuration file (config_file.rs), with the conversion of             *)
(* RawConfigFile into ConfigFile (model/config_file.rs) and the digest of  *)
(* the command-line configuration (cli/src/model/cli_configuration.rs).    *)
(* Each part has its own actions and its own specification; the variables  *)
(* of the other parts stay as they were initialised.                       *)
(*                                                                         *)
(* Time is a global integer clock `now` (one unit = the clock resolution). *)
(* A call's local computation takes no time; time passes only while every  *)
(* call is blocked in thread::sleep, in an HTTP request, or has not been   *)
(* started.  A sleep lasts at least the requested duration (it may         *)
(* oversleep), a request returns after any amount of time.                 *)
(*                                                                         *)
(* The rate limiter (governor crate), the response classifier              *)
(* (response_parser), the URL formatter and the retry-delay iterator are   *)
(* the environment of validate: the limiter's and the classifier's answers *)
(* are nondeterministic, the delay sequence and the budget are drawn in    *)
(* Init.                                                                   *)
(***************************************************************************)
EXTENDS Integers, Sequences, FiniteSets, TLC

\* ------------------------------------------------------------------ bounds

\* Longest retry-delay sequence (RetryConfig.max_attempts).
MaxAttempts == 3
\* Longest single retry delay, in clock units.
MaxDelay == 1
\* Largest max_attempt_duration, in clock units.
MaxDuration == 2
\* Most rule sources given to a ScannerBuilder.
MaxSources == 2

\* Largest node id JavaScript passes to an op (above every id the bridge
\* assigns: the tree has four nodes).
MaxNodeId == 4

\* Longest list of a LinesToIgnore (lines_to_ignore, rules_to_ignore, the
\* rules of one line).
MaxIgnored == 1

\* Longest wait a limiter refusal asks for.
MaxWait == MaxDelay + 1
\* Largest Retry-After hint of the classifier.
MaxHint == MaxDelay + 1
\* The clock stops here: late enough for a call to overrun its budget.
MaxTime == MaxDuration + 2

\* The threads that call validate on the one HttpValidator.
Callers == {"c1", "c2"}

\* SecretCategory values a classifier may return.
SecretCategory == {"Valid", "Inconclusive"}

\* Candidate { rule_id, full_match, captures }
CandidateOf(rule_id, full, org_id) ==
    [rule_id |-> rule_id, full_match |-> full, captures |-> [org_id |-> org_id]]

\* The candidates handed to validate (the Candidate argument).
Candidates ==
    {CandidateOf("rule-one", "abc_018cf028", "abc"),
     CandidateOf("rule-one", "xyz_018cf028", "xyz")}

\* Result<ureq::Response, ureq::Error> of request.call() / send_bytes().
ResponseKinds == {"response", "transport_error"}

\* ------------------------------------------------------------------- state

VARIABLES
    now,                  \* the monotonic clock (Instant::now())
    max_attempt_duration, \* HttpValidator.max_attempt_duration
    delays,               \* the sequence (self.retry_timings_iter)() yields
    pc,                   \* each call's position in validate
    url_ok,               \* whether Url::parse accepts the formatted URL
    start_time,           \* let start_time
    iter,                 \* number of elements iter.next() has yielded
    to_sleep,             \* let mut to_sleep
    attempted,            \* let mut attempted
    wake,                 \* end of the thread::sleep in progress
    ret,                  \* what validate returned
    granted,              \* number of Ok answers of rate_limiter.check()
    candidate,            \* the Candidate each caller passes to validate
    attempted_cache,      \* HttpValidator.attempted_cache
    http_validator,       \* the HttpValidator validate is invoked on (self)
    last_request,         \* the latest HTTP request each caller sent
    \* history of each call, recorded for the properties
    permits,              \* Ok answers of the limiter obtained by this call
    sent,                 \* HTTP requests sent (request.call / send_bytes)
    slept,                \* retry sleeps started (thread::sleep(to_sleep))
    rl_waits,             \* rate-limit sleeps started (thread::sleep(next_delay))
    rl_waited,            \* clock units asked for by those rate-limit sleeps
    slept_for,            \* clock units asked for by the retry sleeps
    checked,              \* elapsed the latest budget check (line 121) saw, and its iteration
    req_at,               \* instant the request in flight was sent
    last_block,           \* duration of the latest request / oversleep of the latest sleep
    last_action,          \* latest answer of the classifier
    only_retry,           \* every answer of the classifier so far was Retry
    hint,                 \* latest RetryAfter(d) with d above the next delay
    overran,              \* a request returned after the budget was spent
    resubmit,             \* the call's candidate had been sent before the call began
    \* ScannerBuilder and Scanner
    rule_sources,         \* ScannerBuilder.rule_sources
    rule_mapping,         \* ScannerBuilder.rule_mapping, as (RuleId, PatternId) pairs
    hs_builder,           \* the patterns registered on ScannerBuilder.hs_builder
    built_validators,     \* ScannerBuilder.built_validators
    built_rules,          \* ScannerBuilder.built_rules
    build_pc,             \* position of try_build
    taken,                \* try_build's local rule_sources (std::mem::take)
    consumed,             \* number of sources the for loop has consumed
    build_result,         \* the error try_build returned, if any
    engine,               \* Scanner.engine
    scanned,              \* the matches of the latest scan
    candidates,           \* the Vec<Candidate> the latest scan returned
    scan_result,          \* Ok or the ScannerError of the latest scan_file
    scanner_no,           \* how many Scanners have been built from the sources
    validation,           \* what validate_candidate returned
    \* static-analysis kernel: TsNodeBridge and the ops called from JavaScript
    mirrored_im,          \* TsNodeBridge.0, the Rust side: (RawTSNode, NodeId) entries in insertion order
    v8_map,               \* TsNodeBridge.0, the mirrored v8::Map: NodeId -> TreeSitterNode object
    first_id,             \* the NodeId insert first returned for each node since the latest clear
    op_ret,               \* the latest bridge call or op and the value it returned
    \* LinesToIgnore
    lines_to_ignore_per_rule, \* LinesToIgnore.lines_to_ignore_per_rule
    lines_to_ignore,      \* LinesToIgnore.lines_to_ignore
    ignore_file,          \* LinesToIgnore.ignore_file
    rules_to_ignore,      \* LinesToIgnore.rules_to_ignore
    filtered,             \* the latest should_filter_rule call and what it returned
    \* parse_config_file
    rulesets_form,        \* the visitor method deserialize_any chose for `rulesets`
    rulesets,             \* let mut out of visit_seq / visit_map (RawConfigFile.rulesets)
    nrc,                  \* the NamedRulesetConfig of the list item being deserialized
    parsed,               \* what parse_config_file returned
    \* history of the document read so far, recorded for the properties
    seen,                 \* the ruleset names read, and whether a name came twice
    item_given,           \* the fields given for the list item being deserialized
    twin,                 \* the rulesets of the same names and fields in the map form
    ill_formed,           \* an item had a field twice or an unknown un-indented key
    \* the command line of the static analyzer
    cli_configuration,    \* the CliConfiguration of the latest generate_diff_aware_digest (self)
    digest                \* the String it returned

configVars == <<max_attempt_duration, delays>>
callVars == <<pc, url_ok, start_time, iter, to_sleep, attempted, wake, ret>>
histVars == <<permits, sent, slept, rl_waits, rl_waited, slept_for, checked,
              req_at, last_block, last_action, only_retry, hint, overran>>
cacheVars == <<candidate, attempted_cache, http_validator>>
validatorVars == <<now, configVars, callVars, granted, histVars, cacheVars, resubmit,
                   last_request>>
builderVars == <<rule_sources, rule_mapping, hs_builder, built_validators,
                 built_rules, build_pc, taken, consumed, build_result>>
scanVars == <<scanned, candidates, scan_result>>
scannerVars == <<builderVars, engine, scanVars, scanner_no, validation>>
bridgeVars == <<mirrored_im, v8_map, first_id, op_ret>>
ignoreVars == <<lines_to_ignore_per_rule, lines_to_ignore, ignore_file,
                rules_to_ignore, filtered>>
parseVars == <<rulesets_form, rulesets, nrc, parsed, seen, item_given, twin,
               ill_formed>>
kernelVars == <<bridgeVars, ignoreVars, parseVars>>
cliVars == <<cli_configuration, digest>>
analyzerVars == <<kernelVars, cliVars>>
vars == <<validatorVars, scannerVars, analyzerVars>>

\* ------------------------------------------------------------ environment

\* NextAction: the classifier's answer.
NextAction ==
    [kind : {"Abort", "Retry", "Unhandled"}, hint : {0}, category : {"none"}]
    \cup [kind : {"RetryAfter"}, hint : 0..MaxHint, category : {"none"}]
    \cup [kind : {"ReturnResult"}, hint : {0}, category : SecretCategory]

NoAction == [kind |-> "none", hint |-> 0, category |-> "none"]

\* Sequences of 1..MaxAttempts delays.
DelaySeqs == UNION {[1..n -> 0..MaxDelay] : n \in 1..MaxAttempts}

NoHint == [d |-> 0, at |-> 0, set |-> FALSE]

\* What an error carries besides its counters: the formatted URL and the
\* parse error of InvalidUrl, the boxed response of RequestedAbort and
\* UnhandledResponse.
NoPayload == [url |-> <<>>, error |-> "none", response |-> "none"]

\* Result<SecretCategory, ValidatorError> of validate.
NoReturn ==
    [kind |-> "none", attempted |-> 0, elapsed |-> 0, next_delay |-> 0,
     category |-> "none", payload |-> NoPayload]

Return(k, att, el, nd, cat) ==
    [kind |-> k, attempted |-> att, elapsed |-> el, next_delay |-> nd,
     category |-> cat, payload |-> NoPayload]

\* Variables of a `${{ ... }}` expression, as paths.
VarCandidate == <<"candidate">>
VarCapture(name) == <<"candidate", "captures", name>>
VarOther == <<"secret">>

\* A template: literal text and `${{ variable }}` nodes.
Lit(text) == [var |-> <<>>, text |-> text]
Var(v) == [var |-> v, text |-> ""]

\* The bytes a variable stands for: the full match for `candidate`, the
\* capture's text for `candidate.captures.<name>`.
Resolve(k, v) ==
    IF v = VarCandidate THEN k.full_match
    ELSE IF Len(v) = 3 /\ v[1] = "candidate" /\ v[2] = "captures"
            /\ v[3] \in DOMAIN k.captures
    THEN k.captures[v[3]]
    ELSE ""

\* A template with its variables replaced: the pieces of the string, in order.
Interpolate(template, k) ==
    [i \in 1..Len(template) |->
        IF template[i].var = <<>> THEN template[i].text
        ELSE Resolve(k, template[i].var)]

\* The request of a validator: method, URL template, header template.
TestRequest ==
    [method |-> "GET",
     url |-> <<Lit("http://host/?id="), Var(VarCapture("org_id"))>>,
     headers |-> <<Lit("Authorization: Bearer "), Var(VarCandidate)>>]
OtherRequest ==
    [method |-> "GET",
     url |-> <<Lit("http://host/?id="), Var(VarCapture("org_id"))>>,
     headers |-> <<Lit("Authorization: Bearer "), Var(VarOther)>>]
PathRequest ==
    [method |-> "GET",
     url |-> <<Lit("http://host/key/"), Var(VarCandidate)>>,
     headers |-> <<Lit("X-Org: "), Var(VarCapture("org_id"))>>]
Requests == {TestRequest, OtherRequest}

\* bug: the URL is formatted with the full match for every variable
FormatUrlFullMatch(k) ==
    [i \in 1..Len(http_validator.request.url) |->
        IF http_validator.request.url[i].var = <<>> THEN http_validator.request.url[i].text
        ELSE k.full_match]

\* (self.request_generator.format_url)(&candidate): the URL template with
\* the candidate substituted, line 143.
FormatUrl(k) == Interpolate(http_validator.request.url, k)

\* (self.request_generator.add_headers)(&candidate, &mut request): line 151.
AddHeaders(k) == Interpolate(http_validator.request.headers, k)

\* The request sent: lines 147-166.
Request(k) ==
    [method |-> http_validator.request.method, url |-> FormatUrl(k),
     headers |-> AddHeaders(k)]

NoRequest == [method |-> "none", url |-> <<>>, headers |-> <<>>]

\* HttpValidatorError::InvalidUrl(formatted_url, parse_err): line 146.
InvalidUrl(formatted_url) ==
    [Return("InvalidUrl", 0, 0, 0, "none") EXCEPT
        !.payload = [url |-> formatted_url, error |-> "ParseError",
                     response |-> "none"]]

\* RequestedAbort(Box::new(response)) / UnhandledResponse(Box::new(response)).
ResponseError(k, r) ==
    [Return(k, 0, 0, 0, "none") EXCEPT !.payload.response = r]

\* ---------------------------------------------------------------- helpers

\* bug: the elapsed time is taken from a fresh Instant
ElapsedFresh(t) == 0

\* start_time.elapsed()
Elapsed(t) == now - start_time[t]

\* Duration::checked_sub(..).unwrap_or_default()
Monus(a, b) == IF a >= b THEN a - b ELSE 0

\* bug: the sleep is not skipped after the last attempt
HasNextAlways(t) == TRUE

\* iter.peek().is_some()
HasNext(t) == iter[t] < Len(delays)

\* iter.peek().copied().unwrap_or_default()
PeekOrDefault(t) == IF iter[t] < Len(delays) THEN delays[iter[t] + 1] ELSE 0

\* bug: the budget is not checked at the head of the rate-limit loop
TimeExceededNever(elapsed) == FALSE

\* if elapsed > self.max_attempt_duration
TimeExceeded(elapsed) == elapsed > max_attempt_duration

\* bug: a rate-limit wait is slept whatever is left of the budget
WaitWillExceedNever(elapsed, next_delay) == FALSE

\* bug: a rate-limit wait that ends exactly with the budget is not slept
WaitWillExceedAtBudget(elapsed, next_delay) ==
    elapsed + next_delay >= max_attempt_duration

\* if elapsed.add(next_delay) > self.max_attempt_duration
WaitWillExceed(elapsed, next_delay) == elapsed + next_delay > max_attempt_duration

\* bug: > where the code has >=
SleepWillExceedStrict(elapsed, sleep) == elapsed + sleep > max_attempt_duration

\* if (elapsed + to_sleep) >= self.max_attempt_duration
SleepWillExceed(elapsed, sleep) == elapsed + sleep >= max_attempt_duration

\* bug: Unhandled falls through like Retry
ReturnsButUnhandled(a) == a.kind \in {"Abort", "ReturnResult"}

\* the arms of `match next_action` that return
Returns(a) == a.kind \in {"Abort", "ReturnResult", "Unhandled"}

\* bug: the sleep after an attempt is the next delay of the iterator, not
\* the one the attempt was started with
SleepAfterNextDelay(t, a) ==
    IF a.kind = "RetryAfter"
    THEN PeekOrDefault(t) + Monus(a.hint, PeekOrDefault(t))
    ELSE PeekOrDefault(t)

\* bug: the whole Retry-After is added, whatever the next delay
SleepAfterWholeHint(t, a) ==
    IF a.kind = "RetryAfter" THEN to_sleep[t] + a.hint ELSE to_sleep[t]

\* to_sleep after `match next_action`
SleepAfter(t, a) ==
    IF a.kind = "RetryAfter"
    THEN to_sleep[t] + Monus(a.hint, PeekOrDefault(t))
    ELSE to_sleep[t]

\* ------------------------------------------------- rule files and matches

\* RuleId values of the rule files.
RuleIds == {"rule-one", "rule-two"}

\* The pattern of the rule file of the tests, and one that is no regex.
OrgPattern == "(?<org_id>[a-z]{3})_[[:xdigit:]]{8}"
BadPattern == "(?<org_id>[a-z]{3"
Patterns == {OrgPattern, BadPattern}

\* Whether Hyperscan accepts the pattern (add_regex answers Ok).
RegexCompiles(p) == p # BadPattern

\* The named captures of a pattern.
CaptureNames(p) == IF p = OrgPattern THEN {"org_id"} ELSE {}

\* Texts the patterns match, with the text of the org_id capture.
MatchTexts ==
    {[full |-> "abc_018cf028", org_id |-> "abc"],
     [full |-> "xyz_018cf028", org_id |-> "xyz"]}

\* RawCheck: any-of / none-of over an input variable.
RawCheck(op, input, values) == [op |-> op, input |-> input, values |-> values]

\* The `checks` lists of the rule files.
CheckLists ==
    {<<>>,
     <<RawCheck("any-of", VarCapture("org_id"), {"xyz"})>>,
     <<RawCheck("any-of", VarCapture("org_id"), {"abc", "xyz"})>>,
     <<RawCheck("any-of", VarCapture("org_id"), {"abc", "xyz"}),
       RawCheck("none-of", VarCandidate, {"abc_018cf028"})>>,
     <<RawCheck("any-of", VarCapture("team"), {"abc"})>>,
     <<RawCheck("any-of", VarOther, {"abc"})>>}

\* The variables of a validator's URL and header templates.
TemplateVariables(request) ==
    {request.url[i].var : i \in {j \in 1..Len(request.url) : request.url[j].var # <<>>}}
    \cup {request.headers[i].var :
             i \in {j \in 1..Len(request.headers) : request.headers[j].var # <<>>}}

\* RawRuleFile: id, matcher (pattern, checks), validator (templates).
RawRuleFiles ==
    [id : RuleIds, pattern : {OrgPattern}, checks : CheckLists,
     request : Requests]
    \cup [id : {"rule-one"}, pattern : {BadPattern}, checks : {<<>>},
          request : {TestRequest}]

\* The rule file of the tests (RULE_FILE).
RuleFile ==
    [id |-> "rule-one", pattern |-> OrgPattern,
     checks |-> <<RawCheck("any-of", VarCapture("org_id"), {"abc", "xyz"})>>,
     request |-> TestRequest]

\* YAML texts: the serialisation of a rule file, or a text that is none.
YamlTexts ==
    [well_formed : {TRUE}, rule : RawRuleFiles]
    \cup {[well_formed |-> FALSE, rule |-> RuleFile]}

NoText == [well_formed |-> FALSE, rule |-> RuleFile]

\* The files of the file system, and the paths given to yaml_file.
FileSystem == [p \in {"rules/two.yml"} |->
                 [well_formed |-> TRUE, rule |-> [RuleFile EXCEPT !.id = "rule-two"]]]
Paths == {"rules/two.yml", "rules/missing.yml"}

\* enum RuleSource
YamlLiteral(text) == [kind |-> "YamlLiteral", path |-> "none", text |-> text]
YamlFile(path) == [kind |-> "YamlFile", path |-> path, text |-> NoText]

\* Result<(), ScannerBuilderError>
NoError == [kind |-> "none", rule |-> "none"]
BuilderError(k, rule) == [kind |-> k, rule |-> rule]

\* Scanner { engine }, before try_build has returned one.
NoEngine == [built |-> FALSE, patterns |-> <<>>, validators |-> <<>>, rules |-> <<>>]

\* The validator of the rule file of the tests.
TestValidator == [id |-> <<"validator-http_", "rule-one">>, request |-> TestRequest]

\* Result<ValidationResult, ScannerError> of validate_candidate, before it
\* has returned.
NoValidation ==
    [result |-> "none",
     value |-> [kind |-> "none", category |-> "none", error |-> "none"]]

\* ScannerBuilder::new()
ScannerBuilderNew ==
    /\ rule_sources = <<>>
    /\ rule_mapping = {}
    /\ hs_builder = <<>>
    /\ built_validators = <<>>
    /\ built_rules = <<>>
    /\ build_pc = "new"
    /\ taken = <<>>
    /\ consumed = 0
    /\ build_result = NoError
    /\ engine = NoEngine
    /\ scanned = <<>>
    /\ candidates = <<>>
    /\ scan_result = "none"
    /\ scanner_no = 0
    /\ validation = NoValidation

\* ------------------------------------------- syntax tree and TsNodeBridge

\* The tree-sitter tree of the file being analysed: `foo(bar, baz)`, a call
\* node and its three children in child order.
TreeNodes == {"call", "foo", "bar", "baz"}
Children(node) == IF node = "call" THEN <<"foo", "bar", "baz">> ELSE <<>>

\* tree_text.get(ts_node.start_byte()..ts_node.end_byte())
NodeText(node) == IF node = "call" THEN "foo(bar, baz)" ELSE node

\* The node ids JavaScript may pass to an op (#[smi] node_id: u32).
NodeIds == 0..MaxNodeId

\* Option::None of a NodeId and of a RawTSNode.
NoId == -1
NoNode == "none"

\* The bridge as a value: the two sides of its MirroredIndexMap.
Bridge(im, v8) == [mirrored_im |-> im, v8_map |-> v8]

\* Nothing has been called yet.
NoOp == [op |-> "none", node |-> NoNode, node_id |-> NoId, some |-> FALSE,
         id |-> NoId, text |-> "", ids |-> <<>>]

\* TsNodeBridge::try_new: an empty MirroredIndexMap.
TsNodeBridgeNew ==
    /\ mirrored_im = <<>>
    /\ v8_map = <<>>
    /\ first_id = [n \in TreeNodes |-> NoId]
    /\ op_ret = NoOp

\* The rule names and the lines of a violation.
RuleNames == {"foo/bar", "ruleset/rule"}
Lines == {10, 13}

\* No should_filter_rule call yet.
NoFilter == [rule_name |-> "none", line |-> 0, value |-> FALSE]

\* A LinesToIgnore that ignores nothing.
LinesToIgnoreEmpty ==
    /\ lines_to_ignore_per_rule = <<>>
    /\ lines_to_ignore = <<>>
    /\ ignore_file = FALSE
    /\ rules_to_ignore = <<>>
    /\ filtered = NoFilter

\* Option<Vec<PathPattern>>
None == [some |-> FALSE, value |-> <<>>]
Some(v) == [some |-> TRUE, value |-> v]

\* PathConfig { only, ignore } and its default.
PathConfig(only, ignore) == [only |-> only, ignore |-> ignore]
PathConfigDefault == PathConfig(None, <<>>)

\* RuleConfig { paths }
RuleConfig(paths) == [paths |-> paths]

\* RulesetConfig { paths, rules } and its default; rules is a map from rule
\* name to RuleConfig.
RulesetConfig(paths, rules) == [paths |-> paths, rules |-> rules]
RulesetConfigDefault == RulesetConfig(PathConfigDefault, <<>>)

\* A key of a YAML mapping: absent, or given with a value.
Absent == [given |-> FALSE, value |-> <<>>]
Given(v) == [given |-> TRUE, value |-> v]

\* The mapping under a ruleset name with no key given (`name:`).
NullMapping == [only |-> Absent, ignore |-> Absent, rules |-> Absent]

\* No list item is being deserialized.
NoItem == [open |-> FALSE, name |-> "", cfg |-> RulesetConfigDefault]

\* parse_config_file has not returned.
NoParse == [result |-> "none", error |-> <<>>, rulesets |-> <<>>]

\* No document has been parsed.
ParseNew ==
    /\ rulesets_form = "none"
    /\ rulesets = <<>>
    /\ nrc = NoItem
    /\ parsed = NoParse
    /\ seen = [names |-> {}, ruleset_twice |-> FALSE, rule_twice |-> FALSE]
    /\ item_given = NullMapping
    /\ twin = [ok |-> TRUE, out |-> <<>>]
    /\ ill_formed = FALSE

\* The kernel's state before any rule is executed.
KernelNew == TsNodeBridgeNew /\ LinesToIgnoreEmpty /\ ParseNew

\* Strings are sequences of pieces, so that joining and formatting are
\* concatenations.  An Option<String> that is None.
NoString == [some |-> FALSE, value |-> <<>>]

\* A Rule: the fields its configuration hash string is made of, and its code.
Rule_(name, checksum, code_base64) ==
    [name |-> name, checksum |-> checksum, code_base64 |-> code_base64]

\* The CliConfiguration of the test.
TestConfiguration ==
    [use_debug |-> TRUE,
     use_configuration_file |-> TRUE,
     ignore_gitignore |-> TRUE,
     source_directory |-> <<"bla">>,
     source_subdirectories |-> <<>>,
     path_config |-> PathConfig(None, None),
     rules_file |-> NoString,
     output_format |-> "Sarif",
     output_file |-> <<"foo">>,
     num_cpus |-> 2,
     rules |-> <<Rule_(<<"myrule">>, <<"foobar">>, <<"mycode">>)>>,
     path_restrictions |-> "default",
     max_file_size_kb |-> 1,
     use_staging |-> FALSE]

\* No digest has been generated.
NoDigest == [hex |-> <<>>]
CliNew ==
    /\ cli_configuration = TestConfiguration
    /\ digest = NoDigest

\* ----------------------------------------------------------------- Init

\* The candidates of the callers.  Candidates are interchangeable, so the
\* first caller's is the first one; a caller that is never started has none
\* to choose.
CandidateChoices(started) ==
    {f \in [Callers -> Candidates] :
        \A t \in Callers : t \notin (started \ {"c1"}) =>
            f[t] = CandidateOf("rule-one", "abc_018cf028", "abc")}

InitCall(started) ==
    /\ now = 0
    /\ max_attempt_duration \in 0..MaxDuration
    /\ delays \in DelaySeqs
    /\ pc = [t \in Callers |-> IF t \in started THEN "idle" ELSE "off"]
    /\ url_ok = [t \in Callers |-> TRUE]
    /\ start_time = [t \in Callers |-> 0]
    /\ iter = [t \in Callers |-> 0]
    /\ to_sleep = [t \in Callers |-> 0]
    /\ attempted = [t \in Callers |-> 0]
    /\ wake = [t \in Callers |-> 0]
    /\ ret = [t \in Callers |-> NoReturn]
    /\ granted = 0
    /\ candidate \in CandidateChoices(started)
    /\ attempted_cache = {}
    /\ http_validator = TestValidator
    /\ last_request = [t \in Callers |-> NoRequest]
    /\ resubmit = [t \in Callers |-> FALSE]
    /\ ScannerBuilderNew
    /\ KernelNew
    /\ CliNew
    /\ permits = [t \in Callers |-> 0]
    /\ sent = [t \in Callers |-> 0]
    /\ slept = [t \in Callers |-> 0]
    /\ rl_waits = [t \in Callers |-> 0]
    /\ rl_waited = [t \in Callers |-> 0]
    /\ slept_for = [t \in Callers |-> 0]
    /\ checked = [t \in Callers |-> [elapsed |-> 0, iter |-> 0]]
    /\ req_at = [t \in Callers |-> 0]
    /\ last_block = [t \in Callers |-> 0]
    /\ last_action = [t \in Callers |-> NoAction]
    /\ only_retry = [t \in Callers |-> TRUE]
    /\ hint = [t \in Callers |-> NoHint]
    /\ overran = [t \in Callers |-> FALSE]

\* One call to validate.
Init == InitCall({"c1"})

\* --------------------------------------------------------------- actions

\* validate(candidate) is entered with candidate k: lines 110-114.
Enter(t, k, u) ==
    /\ now + max_attempt_duration + 2 <= MaxTime
    \* format_url and Url::parse are functions of the candidate
    /\ \A o \in Callers \ {t} :
          (pc[o] \notin {"off", "idle"} /\ candidate[o] = k) => url_ok[o] = u
    /\ resubmit' = [resubmit EXCEPT ![t] =
                      \E o \in Callers \ {t} : candidate[o] = k /\ sent[o] >= 1]
    /\ pc' = [pc EXCEPT ![t] = "while"]
    /\ url_ok' = [url_ok EXCEPT ![t] = u]
    /\ start_time' = [start_time EXCEPT ![t] = now]
    /\ iter' = [iter EXCEPT ![t] = 0]
    /\ attempted' = [attempted EXCEPT ![t] = 0]
    /\ UNCHANGED <<now, configVars, attempted_cache, last_request, to_sleep, wake,
                   ret, granted, histVars>>

\* A caller calls validate on the validator with its candidate.
Start(t, u) ==
    /\ pc[t] = "idle"
    /\ Enter(t, candidate[t], u)
    /\ UNCHANGED <<candidate, http_validator, scannerVars, analyzerVars>>

\* bug: the delay is peeked, the iterator does not advance
IterNextPeeks(t) ==
    /\ pc[t] = "while"
    /\ iter[t] < Len(delays)
    /\ to_sleep' = [to_sleep EXCEPT ![t] = delays[iter[t] + 1]]
    /\ pc' = [pc EXCEPT ![t] = "loop"]
    /\ UNCHANGED <<now, configVars, cacheVars, scannerVars, analyzerVars, last_request, resubmit, url_ok, start_time, iter, attempted, wake,
                   ret, granted, histVars>>

\* bug: the attempt is counted when its iteration begins, before the
\* rate-limit loop
IterNextCountsAttempt(t) ==
    /\ pc[t] = "while"
    /\ iter[t] < Len(delays)
    /\ to_sleep' = [to_sleep EXCEPT ![t] = delays[iter[t] + 1]]
    /\ iter' = [iter EXCEPT ![t] = @ + 1]
    /\ attempted' = [attempted EXCEPT ![t] = @ + 1]
    /\ pc' = [pc EXCEPT ![t] = "loop"]
    /\ UNCHANGED <<now, configVars, cacheVars, scannerVars, analyzerVars, last_request, resubmit, url_ok, start_time, wake, ret,
                   granted, histVars>>

\* while let Some(retry_delay) = iter.next(): lines 116-118.
IterNext(t) ==
    /\ pc[t] = "while"
    /\ iter[t] < Len(delays)
    /\ to_sleep' = [to_sleep EXCEPT ![t] = delays[iter[t] + 1]]
    /\ iter' = [iter EXCEPT ![t] = @ + 1]
    /\ pc' = [pc EXCEPT ![t] = "loop"]
    /\ UNCHANGED <<now, configVars, cacheVars, scannerVars, analyzerVars, last_request, resubmit, url_ok, start_time, attempted, wake, ret,
                   granted, histVars>>

\* The iterator is exhausted: lines 204-210.
IterExhausted(t) ==
    /\ pc[t] = "while"
    /\ iter[t] >= Len(delays)
    /\ pc' = [pc EXCEPT ![t] = "done"]
    /\ ret' = [ret EXCEPT ![t] =
                 Return("RetryAttemptsExceeded", attempted[t], Elapsed(t), 0, "none")]
    /\ UNCHANGED <<now, configVars, cacheVars, scannerVars, analyzerVars, last_request, resubmit, url_ok, start_time, iter, to_sleep,
                   attempted, wake, granted, histVars>>

\* The budget check at the head of the rate-limit loop fails: lines 121-124.
BudgetExceeded(t) ==
    /\ pc[t] = "loop"
    /\ TimeExceeded(Elapsed(t))
    /\ pc' = [pc EXCEPT ![t] = "done"]
    /\ ret' = [ret EXCEPT ![t] =
                 Return("RetryTimeExceeded", attempted[t], Elapsed(t), 0, "none")]
    /\ checked' = [checked EXCEPT ![t] = [elapsed |-> Elapsed(t), iter |-> iter[t]]]
    /\ UNCHANGED <<now, configVars, cacheVars, scannerVars, analyzerVars, last_request, resubmit, url_ok, start_time, iter, to_sleep,
                   attempted, wake, granted, permits, sent, slept, rl_waits,
                   rl_waited, slept_for, req_at, last_block, last_action,
                   only_retry, hint, overran>>

\* rate_limiter.check() answers Ok: lines 121-126.
LimiterOk(t) ==
    /\ pc[t] = "loop"
    /\ ~TimeExceeded(Elapsed(t))
    /\ checked' = [checked EXCEPT ![t] = [elapsed |-> Elapsed(t), iter |-> iter[t]]]
    /\ granted' = granted + 1
    /\ permits' = [permits EXCEPT ![t] = @ + 1]
    /\ pc' = [pc EXCEPT ![t] = "send"]
    /\ UNCHANGED <<now, configVars, cacheVars, scannerVars, analyzerVars, last_request, resubmit, url_ok, start_time, iter, to_sleep,
                   attempted, wake, ret, sent, slept, rl_waits, rl_waited,
                   slept_for, req_at, last_block, last_action, only_retry,
                   hint, overran>>

\* rate_limiter.check() answers Err(try_again_at), w clock units ahead:
\* lines 121-139.  The limiter refuses only before try_again_at and
\* self.clock.now() is read at the same instant, so w >= 1.
LimiterRefuse(t, w) ==
    /\ pc[t] = "loop"
    /\ ~TimeExceeded(Elapsed(t))
    /\ checked' = [checked EXCEPT ![t] = [elapsed |-> Elapsed(t), iter |-> iter[t]]]
    /\ IF WaitWillExceed(Elapsed(t), w)
       THEN /\ pc' = [pc EXCEPT ![t] = "done"]
            /\ ret' = [ret EXCEPT ![t] =
                         Return("RetryWillExceedTime", attempted[t], Elapsed(t), w, "none")]
            /\ UNCHANGED <<wake, rl_waits, rl_waited>>
       ELSE /\ pc' = [pc EXCEPT ![t] = "rl_sleep"]
            /\ wake' = [wake EXCEPT ![t] = now + w]
            /\ rl_waits' = [rl_waits EXCEPT ![t] = @ + 1]
            /\ rl_waited' = [rl_waited EXCEPT ![t] = @ + w]
            /\ UNCHANGED ret
    /\ UNCHANGED <<now, configVars, cacheVars, scannerVars, analyzerVars, last_request, resubmit, url_ok, start_time, iter, to_sleep,
                   attempted, granted, permits, sent, slept, slept_for, req_at,
                   last_block, last_action, only_retry, hint, overran>>

\* bug: after the rate-limit sleep the outer loop continues (next delay)
RateLimitWakeContinuesWhile(t) ==
    /\ pc[t] = "rl_sleep"
    /\ now >= wake[t]
    /\ last_block' = [last_block EXCEPT ![t] = now - wake[t]]
    /\ wake' = [wake EXCEPT ![t] = 0]
    /\ pc' = [pc EXCEPT ![t] = "while"]
    /\ UNCHANGED <<now, configVars, cacheVars, scannerVars, analyzerVars, last_request, resubmit, url_ok, start_time, iter, to_sleep,
                   attempted, ret, granted, permits, sent, slept, rl_waits,
                   rl_waited, slept_for, checked, req_at, last_action,
                   only_retry, hint, overran>>

\* bug: after the rate-limit sleep the request is sent without asking the
\* limiter again
RateLimitWakeSends(t) ==
    /\ pc[t] = "rl_sleep"
    /\ now >= wake[t]
    /\ last_block' = [last_block EXCEPT ![t] = now - wake[t]]
    /\ wake' = [wake EXCEPT ![t] = 0]
    /\ pc' = [pc EXCEPT ![t] = "send"]
    /\ UNCHANGED <<now, configVars, cacheVars, scannerVars, analyzerVars, last_request, resubmit, url_ok, start_time, iter, to_sleep,
                   attempted, ret, granted, permits, sent, slept, rl_waits,
                   rl_waited, slept_for, checked, req_at, last_action,
                   only_retry, hint, overran>>

\* thread::sleep(next_delay) returns and the loop goes round: lines 138-141.
RateLimitWake(t) ==
    /\ pc[t] = "rl_sleep"
    /\ now >= wake[t]
    /\ last_block' = [last_block EXCEPT ![t] = now - wake[t]]
    /\ wake' = [wake EXCEPT ![t] = 0]
    /\ pc' = [pc EXCEPT ![t] = "loop"]
    /\ UNCHANGED <<now, configVars, cacheVars, scannerVars, analyzerVars, last_request, resubmit, url_ok, start_time, iter, to_sleep,
                   attempted, ret, granted, permits, sent, slept, rl_waits,
                   rl_waited, slept_for, checked, req_at, last_action,
                   only_retry, hint, overran>>

\* bug: the attempt is counted before the URL is parsed, and an unparseable
\* URL is retried with the next delay
SendRetriesInvalidUrl(t) ==
    /\ pc[t] = "send"
    /\ attempted' = [attempted EXCEPT ![t] = @ + 1]
    /\ pc' = [pc EXCEPT ![t] = "while"]
    /\ UNCHANGED <<now, configVars, cacheVars, scannerVars, analyzerVars, last_request, resubmit, url_ok, start_time,
                   iter, to_sleep, wake, ret, granted, histVars>>

\* The URL is formatted and parsed, the request built and sent: lines 143-166.
Send(t) ==
    /\ pc[t] = "send"
    /\ IF url_ok[t]
       THEN /\ attempted' = [attempted EXCEPT ![t] = @ + 1]
            /\ sent' = [sent EXCEPT ![t] = @ + 1]
            /\ last_request' = [last_request EXCEPT ![t] = Request(candidate[t])]
            /\ req_at' = [req_at EXCEPT ![t] = now]
            /\ pc' = [pc EXCEPT ![t] = "request"]
            /\ UNCHANGED ret
       ELSE /\ pc' = [pc EXCEPT ![t] = "done"]
            /\ ret' = [ret EXCEPT ![t] = InvalidUrl(FormatUrl(candidate[t]))]
            /\ UNCHANGED <<attempted, sent, req_at, last_request>>
    /\ UNCHANGED <<now, configVars, cacheVars, scannerVars, analyzerVars, resubmit, url_ok, start_time, iter, to_sleep, wake,
                   granted, permits, slept, rl_waits, rl_waited, slept_for,
                   checked, last_block, last_action, only_retry, hint, overran>>

\* bug: a transport error ends validate whatever the classifier answers
ResponseTransportFatal(t, r, a) ==
    /\ pc[t] = "request"
    /\ last_action' = [last_action EXCEPT ![t] = a]
    /\ pc' = [pc EXCEPT ![t] = "done"]
    /\ ret' = [ret EXCEPT ![t] = ResponseError("UnhandledResponse", r)]
    /\ UNCHANGED <<now, configVars, cacheVars, scannerVars, analyzerVars, last_request, resubmit, url_ok, start_time,
                   iter, to_sleep, attempted, wake, granted, permits, sent,
                   slept, rl_waits, rl_waited, slept_for, checked, req_at,
                   last_block, only_retry, hint, overran>>

\* The request returns r (a response or a transport error), the classifier
\* answers a, and validate returns, sleeps before the next attempt, or leaves
\* the loop: lines 155-202.
Response(t, r, a) ==
    /\ pc[t] = "request"
    /\ last_action' = [last_action EXCEPT ![t] = a]
    /\ only_retry' = [only_retry EXCEPT ![t] = @ /\ a.kind = "Retry"]
    /\ last_block' = [last_block EXCEPT ![t] = now - req_at[t]]
    /\ req_at' = [req_at EXCEPT ![t] = 0]
    /\ overran' = [overran EXCEPT ![t] = @ \/ Elapsed(t) > max_attempt_duration]
    /\ hint' = [hint EXCEPT ![t] =
                  IF a.kind = "RetryAfter" /\ HasNext(t) /\ PeekOrDefault(t) < a.hint
                  THEN [d |-> a.hint, at |-> now, set |-> TRUE]
                  ELSE NoHint]
    /\ to_sleep' = [to_sleep EXCEPT ![t] = IF Returns(a) THEN @ ELSE SleepAfter(t, a)]
    /\ IF Returns(a)
       THEN /\ pc' = [pc EXCEPT ![t] = "done"]
            /\ ret' = [ret EXCEPT ![t] =
                 CASE a.kind = "Abort" ->
                        ResponseError("RequestedAbort", r)
                   [] a.kind = "ReturnResult" ->
                        Return("Ok", 0, 0, 0, a.category)
                   [] OTHER ->
                        ResponseError("UnhandledResponse", r)]
            /\ UNCHANGED <<wake, slept, slept_for>>
       ELSE IF HasNext(t)
       THEN IF SleepWillExceed(Elapsed(t), SleepAfter(t, a))
            THEN /\ pc' = [pc EXCEPT ![t] = "done"]
                 /\ ret' = [ret EXCEPT ![t] =
                              Return("RetryWillExceedTime", attempted[t],
                                     Elapsed(t), SleepAfter(t, a), "none")]
                 /\ UNCHANGED <<wake, slept, slept_for>>
            ELSE /\ pc' = [pc EXCEPT ![t] = "retry_sleep"]
                 /\ wake' = [wake EXCEPT ![t] = now + SleepAfter(t, a)]
                 /\ slept' = [slept EXCEPT ![t] = @ + 1]
                 /\ slept_for' = [slept_for EXCEPT ![t] = @ + SleepAfter(t, a)]
                 /\ UNCHANGED ret
       ELSE /\ pc' = [pc EXCEPT ![t] = "while"]
            /\ UNCHANGED <<wake, ret, slept, slept_for>>
    /\ UNCHANGED <<now, configVars, cacheVars, scannerVars, analyzerVars, last_request, resubmit, url_ok, start_time, iter, attempted,
                   granted, permits, sent, rl_waits, rl_waited, checked>>

\* thread::sleep(to_sleep) returns: lines 200-202.
RetryWake(t) ==
    /\ pc[t] = "retry_sleep"
    /\ now >= wake[t]
    /\ last_block' = [last_block EXCEPT ![t] = now - wake[t]]
    /\ wake' = [wake EXCEPT ![t] = 0]
    /\ pc' = [pc EXCEPT ![t] = "while"]
    /\ UNCHANGED <<now, configVars, cacheVars, scannerVars, analyzerVars, last_request, resubmit, url_ok, start_time, iter, to_sleep,
                   attempted, ret, granted, permits, sent, slept, rl_waits,
                   rl_waited, slept_for, checked, req_at, last_action,
                   only_retry, hint, overran>>

\* A call that is not computing: time may pass.
Blocked(t) == pc[t] \in {"off", "idle", "rl_sleep", "retry_sleep", "request", "done"}

\* A call that is waiting for time to pass.
Waiting(t) == pc[t] \in {"rl_sleep", "retry_sleep", "request"}

\* The clock advances by one unit.
Tick ==
    /\ now < MaxTime
    /\ \A t \in Callers : Blocked(t)
    /\ \E t \in Callers : Waiting(t)
    /\ now' = now + 1
    /\ UNCHANGED <<configVars, callVars, granted, histVars, cacheVars, resubmit,
                   last_request, scannerVars, analyzerVars>>

Step(t) ==
    \/ \E u \in BOOLEAN : Start(t, u)
    \/ IterNext(t)
    \/ IterExhausted(t)
    \/ BudgetExceeded(t)
    \/ LimiterOk(t)
    \/ \E w \in 1..MaxWait : LimiterRefuse(t, w)
    \/ RateLimitWake(t)
    \/ Send(t)
    \/ \E r \in ResponseKinds, a \in NextAction : Response(t, r, a)
    \/ RetryWake(t)

Next == Tick \/ \E t \in Callers : Step(t)

Spec == Init /\ [][Next]_vars

\* Two concurrent calls on one validator, whose retry configuration is one
\* of ConcDelays and whose budget is ConcDuration.
ConcDelays == {<<0, 0>>, <<1>>}
ConcDuration == {1}
InitConc ==
    /\ InitCall(Callers)
    /\ delays \in ConcDelays
    /\ max_attempt_duration \in ConcDuration
SpecConc == InitConc /\ [][Next]_vars


\* One call, under a fair scheduler: the thread keeps running, its requests
\* return, its sleeps end, and time goes on.
LiveSpec ==
    /\ Init
    /\ [][Next]_vars
    /\ WF_vars(Tick)
    /\ \A t \in Callers : WF_vars(Step(t))

\* ------------------------------------------------- ScannerBuilder, Scanner

\* yaml_string(yaml_str)
YamlString(text) ==
    /\ build_pc = "new"
    /\ Len(rule_sources) < MaxSources
    /\ rule_sources' = Append(rule_sources, YamlLiteral(text))
    /\ UNCHANGED <<validatorVars, analyzerVars, rule_mapping, hs_builder, built_validators,
                   built_rules, build_pc, taken, consumed, build_result,
                   engine, scanVars,
                   scanner_no, validation>>

\* yaml_file(file_path)
YamlFilePath(path) ==
    /\ build_pc = "new"
    /\ Len(rule_sources) < MaxSources
    /\ rule_sources' = Append(rule_sources, YamlFile(path))
    /\ UNCHANGED <<validatorVars, analyzerVars, rule_mapping, hs_builder, built_validators,
                   built_rules, build_pc, taken, consumed, build_result,
                   engine, scanVars,
                   scanner_no, validation>>

\* fs::read_to_string(path) or the literal: lines 151-156.
ReadSource(src) ==
    IF src.kind = "YamlLiteral" THEN [ok |-> TRUE, text |-> src.text]
    ELSE IF src.path \in DOMAIN FileSystem
    THEN [ok |-> TRUE, text |-> FileSystem[src.path]]
    ELSE [ok |-> FALSE, text |-> NoText]

\* serde_yaml::from_str::<RawRuleFile>: lines 157-161.
ParseYaml(text) == [ok |-> text.well_formed, rule |-> text.rule]

\* bug: the rule id is not looked up in rule_mapping
IsDuplicateNever(rule_id) == FALSE

\* self.rule_mapping.entry(rule_id) is Entry::Occupied: lines 164-169.
IsDuplicate(rule_id) == \E e \in rule_mapping : e[1] = rule_id

\* self.hs_builder.add_regex(&raw.pattern): the pattern is registered and
\* its PatternId returned, or the regex is refused.
add_regex(pattern) ==
    [ok |-> RegexCompiles(pattern), pattern_id |-> Len(hs_builder) + 1]

\* parse_candidate_variable(input): Entire for `candidate`, Capture(name) for
\* `candidate.captures.<name>`, None otherwise.
parse_candidate_variable(v) ==
    IF Len(v) = 1 /\ v[1] = "candidate"
    THEN [kind |-> "Entire", name |-> "none"]
    ELSE IF Len(v) = 3 /\ v[1] = "candidate" /\ v[2] = "captures"
    THEN [kind |-> "Capture", name |-> v[3]]
    ELSE [kind |-> "None", name |-> "none"]

\* Check::from_raw(raw_check)
CheckFromRaw(raw_check) == [op |-> raw_check.op, values |-> raw_check.values]

\* bug: every check is targeted at the entire candidate
TargetedCheckerEntire(raw_check) ==
    [target |-> [kind |-> "Entire", name |-> "none"], check |-> CheckFromRaw(raw_check)]

\* TargetedChecker::candidate(check) / TargetedChecker::named_capture(name,
\* check): lines 186-197.
TargetedChecker(raw_check) ==
    [target |-> parse_candidate_variable(raw_check.input),
     check |-> CheckFromRaw(raw_check)]

\* bug: a check over an unknown variable is left out and the rule is built
TranslateChecksSkipsInvalid(raw_checks) ==
    LET valid == SelectSeq(raw_checks, LAMBDA c :
                     parse_candidate_variable(c.input).kind # "None")
    IN  [ok |-> TRUE,
         checks |-> [i \in 1..Len(valid) |-> TargetedChecker(valid[i])]]

\* The loop over raw_checks: lines 184-200.
TranslateChecks(raw_checks) ==
    [ok |-> \A i \in 1..Len(raw_checks) :
                parse_candidate_variable(raw_checks[i].input).kind # "None",
     checks |-> [i \in 1..Len(raw_checks) |-> TargetedChecker(raw_checks[i])]]

\* bug: every validator gets the same id
ValidatorIdShared(rule_id) == <<"validator-http_", "rule">>

\* ValidatorId::from(format!("validator-http_{}", rule_id)): line 209.
ValidatorIdOf(rule_id) == <<"validator-http_", rule_id>>

\* http::build_simple_http(raw_cfg, validator_id, &self.http_retry): the
\* validator of the rule, whose id() is validator_id.
build_simple_http(request, validator_id) ==
    [id |-> validator_id, request |-> request]

\* Rule::new(rule_id, pattern_id, validator_id, Vec::new(), checks): line 216.
Rule(rule_id, pattern_id, validator_id, checks) ==
    [rule_id |-> rule_id, pattern_id |-> pattern_id,
     validator_id |-> validator_id, checks |-> checks]

\* The builder after compile_rule_mut, and what it returned.
Compiled(err, mapping, hs, rules, validators) ==
    [err |-> err, rule_mapping |-> mapping, hs_builder |-> hs,
     built_rules |-> rules, built_validators |-> validators]

\* compile_rule_mut(rule_source): lines 150-223.
compile_rule_mut(rule_source) ==
    LET read == ReadSource(rule_source)
        yaml == ParseYaml(read.text)
        raw_rule == yaml.rule
        rule_id == raw_rule.id
        regex == add_regex(raw_rule.pattern)
        mapping == rule_mapping \cup {<<rule_id, regex.pattern_id>>}
        hs == Append(hs_builder, raw_rule.pattern)
        translated == TranslateChecks(raw_rule.checks)
        validator == build_simple_http(raw_rule.request, ValidatorIdOf(rule_id))
        rule == Rule(rule_id, regex.pattern_id, validator.id, translated.checks)
    IN  IF ~read.ok
        THEN Compiled(BuilderError("Io", "none"), rule_mapping, hs_builder,
                      built_rules, built_validators)
        ELSE IF ~yaml.ok
        THEN Compiled(BuilderError("InvalidYamlSyntax", "none"), rule_mapping,
                      hs_builder, built_rules, built_validators)
        ELSE IF IsDuplicate(rule_id)
        THEN Compiled(BuilderError("DuplicateRuleId", rule_id), rule_mapping,
                      hs_builder, built_rules, built_validators)
        ELSE IF ~regex.ok
        THEN Compiled(BuilderError("RuleCompilationError", rule_id),
                      rule_mapping, hs_builder, built_rules, built_validators)
        ELSE IF ~translated.ok
        THEN Compiled(BuilderError("RuleCompilationError", rule_id), mapping,
                      hs, built_rules, built_validators)
        ELSE Compiled(NoError, mapping, hs, Append(built_rules, rule),
                      Append(built_validators, validator))

\* try_build is entered: line 133.
TryBuild ==
    /\ build_pc = "new"
    /\ taken' = rule_sources
    /\ rule_sources' = <<>>
    /\ build_pc' = "loop"
    /\ UNCHANGED <<validatorVars, analyzerVars, rule_mapping, hs_builder, built_validators,
                   built_rules, consumed, build_result, engine, scanVars,
                   scanner_no, validation>>

\* bug: a source that fails to compile is skipped and the loop goes on
CompileRuleMutSkipsFailures ==
    /\ build_pc = "loop"
    /\ consumed < Len(taken)
    /\ LET out == compile_rule_mut(taken[consumed + 1])
       IN  /\ consumed' = consumed + 1
           /\ rule_mapping' = out.rule_mapping
           /\ hs_builder' = out.hs_builder
           /\ built_rules' = out.built_rules
           /\ built_validators' = out.built_validators
    /\ UNCHANGED <<validatorVars, analyzerVars, rule_sources, build_pc, build_result, taken,
                   engine, scanVars,
                   scanner_no, validation>>

\* One turn of `for rule_source in rule_sources`:
\* self.compile_rule_mut(rule_source)?, lines 134-136.
CompileRuleMut ==
    /\ build_pc = "loop"
    /\ consumed < Len(taken)
    /\ LET out == compile_rule_mut(taken[consumed + 1])
       IN  /\ consumed' = consumed + 1
           /\ rule_mapping' = out.rule_mapping
           /\ hs_builder' = out.hs_builder
           /\ built_rules' = out.built_rules
           /\ built_validators' = out.built_validators
           /\ build_result' = out.err
           /\ build_pc' = IF out.err = NoError THEN "loop" ELSE "failed"
    /\ UNCHANGED <<validatorVars, analyzerVars, rule_sources, taken, engine, scanVars,
                   scanner_no, validation>>

\* The loop is over: hs_builder.try_compile(), which Hyperscan may refuse,
\* then EngineBuilder...build() and Ok(Scanner { engine }): lines 137-146.
TryCompile(ok) ==
    /\ build_pc = "loop"
    /\ consumed = Len(taken)
    /\ IF ok
       THEN /\ build_pc' = "built"
            /\ engine' = [built |-> TRUE, patterns |-> hs_builder,
                          validators |-> built_validators, rules |-> built_rules]
            /\ scanner_no' = scanner_no + 1
            /\ UNCHANGED build_result
       ELSE /\ build_pc' = "failed"
            /\ build_result' = BuilderError("CompilationError", "none")
            /\ UNCHANGED <<engine, scanner_no>>
    /\ UNCHANGED <<validatorVars, analyzerVars, rule_sources, rule_mapping, hs_builder,
                   built_validators, built_rules, taken, consumed, scanVars,
                   validation>>

\* What the compiled matcher emits for the bytes of a file: sequences of
\* matches (PatternId, full text, captures).
Matches(patterns) ==
    {[pattern_id |-> p, full |-> x.full, captures |-> [org_id |-> x.org_id]] :
        p \in 1..Len(patterns), x \in MatchTexts}

ScanInputs(patterns) ==
    {<<>>} \cup {<<m>> : m \in Matches(patterns)}
           \cup {<<m, n>> : m \in Matches(patterns), n \in Matches(patterns)}

\* A Check on a byte slice: any-of / none-of.
CheckSucceeds(check, text) ==
    IF check.op = "any-of" THEN text \in check.values ELSE text \notin check.values

\* A TargetedChecker on a match: the check on the full match or on the named
\* capture; a capture the match does not have fails the check.
TargetedCheckSucceeds(checker, m) ==
    IF checker.target.kind = "Entire"
    THEN CheckSucceeds(checker.check, m.full)
    ELSE /\ checker.target.name \in DOMAIN m.captures
         /\ CheckSucceeds(checker.check, m.captures[checker.target.name])

\* The rule that owns a pattern.
OwningRule(rules, pattern_id) ==
    rules[CHOOSE i \in 1..Len(rules) : rules[i].pattern_id = pattern_id]

\* The candidate assembled from a match.
Candidate(rule, m) ==
    [rule_id |-> rule.rule_id, full_match |-> m.full, captures |-> m.captures]

\* Engine::scan: the matches whose rule's checks all succeed, as candidates,
\* in match-emission order.
EngineScan(e, matches) ==
    LET passing == SelectSeq(matches, LAMBDA m :
                       \A i \in 1..Len(OwningRule(e.rules, m.pattern_id).checks) :
                           TargetedCheckSucceeds(
                               OwningRule(e.rules, m.pattern_id).checks[i], m))
    IN  [i \in 1..Len(passing) |->
            Candidate(OwningRule(e.rules, passing[i].pattern_id), passing[i])]

\* bug: the candidates of the scan before are still in the Vec returned
ScanFileKeepsCandidates(readable, matches) ==
    /\ build_pc = "built"
    /\ readable
    /\ scanned' = matches
    /\ candidates' = IF Len(candidates) + Len(matches) <= 2
                     THEN candidates \o EngineScan(engine, matches)
                     ELSE EngineScan(engine, matches)
    /\ scan_result' = "Ok"
    /\ UNCHANGED <<validatorVars, analyzerVars, builderVars, engine, scanner_no, validation>>

\* bug: a check on a capture the match does not have is an engine error
ScanFileMissingCaptureFails(readable, matches) ==
    /\ build_pc = "built"
    /\ readable
    /\ scanned' = matches
    /\ IF \E i \in 1..Len(matches) :
            \E k \in 1..Len(OwningRule(engine.rules, matches[i].pattern_id).checks) :
               LET target == OwningRule(engine.rules, matches[i].pattern_id).checks[k].target
               IN  target.kind = "Capture" /\ target.name \notin DOMAIN matches[i].captures
       THEN candidates' = <<>> /\ scan_result' = "Engine"
       ELSE candidates' = EngineScan(engine, matches) /\ scan_result' = "Ok"
    /\ UNCHANGED <<validatorVars, analyzerVars, builderVars, engine, scanner_no, validation>>

\* Scanner::scan_file: fs::read(file_path), whose failure is returned as
\* ScannerError::Io, then engine.scan on the bytes, for which the matcher
\* emits `matches`: lines 37-44.
ScanFile(readable, matches) ==
    /\ build_pc = "built"
    /\ IF readable
       THEN /\ scanned' = matches
            /\ candidates' = EngineScan(engine, matches)
            /\ scan_result' = "Ok"
       ELSE /\ scanned' = <<>>
            /\ candidates' = <<>>
            /\ scan_result' = "Io"
    /\ UNCHANGED <<validatorVars, analyzerVars, builderVars, engine, scanner_no, validation>>

NextBuild ==
    \/ \E text \in YamlTexts : YamlString(text)
    \/ \E path \in Paths : YamlFilePath(path)
    \/ TryBuild
    \/ CompileRuleMut
    \/ \E ok \in BOOLEAN : TryCompile(ok)
    \/ \E matches \in ScanInputs(engine.patterns) : ScanFile(TRUE, matches)
    \/ ScanFile(FALSE, <<>>)

\* No call to validate is made while a Scanner is built and used.
InitBuild ==
    /\ InitCall({})
    /\ delays = <<0>>
    /\ max_attempt_duration = 0

SpecBuild == InitBuild /\ [][NextBuild]_vars

\* ------------------------------------------- scans and validate_candidate

\* The thread that uses the Scanner.
ScanCaller == "c1"

\* The rule files given to the Scanner that validates its candidates: the
\* rule file of the tests and a second rule with its own check and request.
ScanTexts ==
    {[well_formed |-> TRUE, rule |-> RuleFile],
     [well_formed |-> TRUE,
      rule |-> [id |-> "rule-two", pattern |-> OrgPattern,
                checks |-> <<RawCheck("none-of", VarCapture("org_id"), {"abc"})>>,
                request |-> PathRequest]]}

\* The classifier's answers, with the category of a candidate that is no
\* secret.
ScanActions ==
    NextAction \cup {[kind |-> "ReturnResult", hint |-> 0, category |-> "Invalid"]}

\* A second ScannerBuilder is given the rule sources of the first, in the
\* same order, and try_build is entered: lines 98-133.
ScannerBuilderAgain ==
    /\ build_pc = "built"
    /\ scanner_no = 1
    /\ rule_sources' = <<>>
    /\ rule_mapping' = {}
    /\ hs_builder' = <<>>
    /\ built_validators' = <<>>
    /\ built_rules' = <<>>
    /\ consumed' = 0
    /\ build_pc' = "loop"
    /\ UNCHANGED <<validatorVars, analyzerVars, taken, build_result, engine, scanVars,
                   scanner_no, validation>>

\* Engine::validate_candidate: the rule of the candidate.
RuleOf(e, rule_id) ==
    e.rules[CHOOSE i \in 1..Len(e.rules) : e.rules[i].rule_id = rule_id]

\* Engine::validate_candidate: the registered validator with this id.
ValidatorOf(e, validator_id) ==
    e.validators[CHOOSE i \in 1..Len(e.validators) : e.validators[i].id = validator_id]

\* Scanner::validate_candidate(candidate) on a candidate of the latest scan:
\* engine.validate_candidate resolves the rule and its validator and calls
\* validator.validate(candidate), lines 46-51.
ValidateCandidate(t, i, u) ==
    /\ build_pc = "built"
    /\ pc[t] = "off"
    /\ validation = NoValidation
    /\ i \in 1..Len(candidates)
    /\ candidate' = [candidate EXCEPT ![t] = candidates[i]]
    /\ http_validator' =
          ValidatorOf(engine, RuleOf(engine, candidates[i].rule_id).validator_id)
    /\ Enter(t, candidates[i], u)
    /\ UNCHANGED <<scannerVars, analyzerVars>>

\* impl From<HttpValidatorError> for ValidatorError: http.rs lines 213-220.
ChildError(value) == [validator_type |-> "http", err |-> value.kind]

\* ValidationResult of what validate returned.
ValidationResult(r) ==
    IF r.kind = "Ok"
    THEN CASE r.category = "Valid" ->
                [kind |-> "Secret", category |-> r.category, error |-> "none"]
           [] r.category = "Invalid" ->
                [kind |-> "NotSecret", category |-> "none", error |-> "none"]
           [] OTHER ->
                [kind |-> "Inconclusive", category |-> "none", error |-> "none"]
    ELSE [kind |-> "ValidationError", category |-> "none",
          error |-> ChildError(r).err]

\* bug: an error of the validator is returned as ScannerError::Engine
ValidateCandidateReturnFailsOnError(t) ==
    /\ pc[t] = "done"
    /\ validation = NoValidation
    /\ validation' = IF ret[t].kind = "Ok"
                     THEN [result |-> "Ok", value |-> ValidationResult(ret[t])]
                     ELSE [result |-> "Engine",
                           value |-> [kind |-> "none", category |-> "none",
                                      error |-> ret[t].kind]]
    /\ pc' = [pc EXCEPT ![t] = "returned"]
    /\ UNCHANGED <<now, configVars, url_ok, start_time, iter, to_sleep, attempted,
                   wake, ret, granted, histVars, cacheVars, resubmit, last_request,
                   builderVars, engine, scanVars, scanner_no, analyzerVars>>

\* validate has returned and validate_candidate returns Ok(ValidationResult):
\* scanner.rs lines 50-54.
ValidateCandidateReturn(t) ==
    /\ pc[t] = "done"
    /\ validation = NoValidation
    /\ validation' = [result |-> "Ok", value |-> ValidationResult(ret[t])]
    /\ pc' = [pc EXCEPT ![t] = "returned"]
    /\ UNCHANGED <<now, configVars, url_ok, start_time, iter, to_sleep, attempted,
                   wake, ret, granted, histVars, cacheVars, resubmit, last_request,
                   builderVars, engine, scanVars, scanner_no, analyzerVars>>

\* The thread is not inside validate_candidate.
Free(t) == pc[t] \in {"off", "returned"}

\* Validators with one attempt and no time to wait: validate neither sleeps
\* nor finds its budget spent at the head of the loop.
ScanDelays == <<0>>
ScanDuration == 0

\* One thread builds a Scanner, scans files, validates a candidate, scans
\* again, and builds a second Scanner from the same sources.
NextScan ==
    \/ \E text \in ScanTexts : YamlString(text)
    \/ TryBuild
    \/ Free(ScanCaller) /\ CompileRuleMut
    \/ Free(ScanCaller) /\ \E ok \in BOOLEAN : TryCompile(ok)
    \/ Free(ScanCaller) /\ \E matches \in ScanInputs(engine.patterns) :
                               ScanFile(TRUE, matches)
    \/ Free(ScanCaller) /\ ScanFile(FALSE, <<>>)
    \/ Free(ScanCaller) /\ ScannerBuilderAgain
    \/ \E i \in 1..2, u \in BOOLEAN : ValidateCandidate(ScanCaller, i, u)
    \/ IterNext(ScanCaller)
    \/ IterExhausted(ScanCaller)
    \/ LimiterOk(ScanCaller)
    \/ \E w \in 1..MaxWait : LimiterRefuse(ScanCaller, w)
    \/ Send(ScanCaller)
    \/ \E r \in ResponseKinds, a \in ScanActions : Response(ScanCaller, r, a)
    \/ Tick
    \/ ValidateCandidateReturn(ScanCaller)

InitScan ==
    /\ InitCall({})
    /\ delays = ScanDelays
    /\ max_attempt_duration = ScanDuration

SpecScan == InitScan /\ [][NextScan]_vars

\* The retry configuration of the validators (ScannerBuilder.http_retry) and
\* their time budget, when a candidate is validated.
ValidateDelays == <<0, 1>>
ValidateDuration == 2

\* A Scanner is built, scans a file and validates one of the candidates.
NextValidate ==
    \/ \E text \in ScanTexts : YamlString(text)
    \/ TryBuild
    \/ CompileRuleMut
    \/ \E ok \in BOOLEAN : TryCompile(ok)
    \/ pc[ScanCaller] = "off" /\ \E matches \in ScanInputs(engine.patterns) :
                                    ScanFile(TRUE, matches)
    \/ \E i \in 1..2, u \in BOOLEAN : ValidateCandidate(ScanCaller, i, u)
    \/ IterNext(ScanCaller)
    \/ IterExhausted(ScanCaller)
    \/ BudgetExceeded(ScanCaller)
    \/ LimiterOk(ScanCaller)
    \/ \E w \in 1..MaxWait : LimiterRefuse(ScanCaller, w)
    \/ RateLimitWake(ScanCaller)
    \/ Send(ScanCaller)
    \/ \E r \in ResponseKinds, a \in ScanActions : Response(ScanCaller, r, a)
    \/ RetryWake(ScanCaller)
    \/ Tick
    \/ ValidateCandidateReturn(ScanCaller)

InitValidate ==
    /\ InitCall({})
    /\ delays = ValidateDelays
    /\ max_attempt_duration = ValidateDuration

SpecValidate == InitValidate /\ [][NextValidate]_vars

\* ---------------------------------------------- TsNodeBridge and its ops

\* MirroredIndexMap::len
len(b) == Len(b.mirrored_im)

\* MirroredIndexMap::get_full(key): the (index, key, value) of the key.
get_full(b, key) ==
    IF \E i \in 1..len(b) : b.mirrored_im[i].key = key
    THEN LET i == CHOOSE i \in 1..len(b) : b.mirrored_im[i].key = key
         IN  [some |-> TRUE, index |-> i - 1, value |-> b.mirrored_im[i].value]
    ELSE [some |-> FALSE, index |-> NoId, value |-> NoId]

\* MirroredIndexMap::get_index(index): the entry at an index, if any.
get_index(b, index) ==
    IF index >= 0 /\ index < len(b)
    THEN [some |-> TRUE, key |-> b.mirrored_im[index + 1].key]
    ELSE [some |-> FALSE, key |-> NoNode]

\* MirroredIndexMap::insert_with: a new entry at the end of the Rust map and
\* the (v8 key, v8 value) pair the closure built in the v8 map.
insert_with(b, key, value, v8_key, v8_value) ==
    Bridge(Append(b.mirrored_im, [key |-> key, value |-> value]),
           [i \in DOMAIN b.v8_map \cup {v8_key} |->
               IF i = v8_key THEN v8_value ELSE b.v8_map[i]])

\* TreeSitterNode::from_ts_node(id, node)
build_v8_node(node, id) == [id |-> id, node |-> node]

\* insert without the lookup: every call appends.
InsertAlwaysAppends(b, node) ==
    [bridge |-> insert_with(b, node, len(b), len(b), build_v8_node(node, len(b))),
     node_id |-> len(b)]

\* insert that takes the length after the insertion as the id.
InsertIdsFromOne(b, node) ==
    LET found == get_full(b, node) IN
    IF found.some
    THEN [bridge |-> b, node_id |-> found.value]
    ELSE LET node_id == len(b) + 1 IN
         [bridge |-> insert_with(b, node, node_id, node_id,
                                 build_v8_node(node, node_id)),
          node_id |-> node_id]

\* TsNodeBridge::insert: the bridge after the call and the NodeId returned.
insert(b, node) ==
    LET found == get_full(b, node) IN
    IF found.some
    THEN [bridge |-> b, node_id |-> found.value]
    ELSE LET node_id == len(b) IN
         [bridge |-> insert_with(b, node, node_id, node_id,
                                 build_v8_node(node, node_id)),
          node_id |-> node_id]

\* TsNodeBridge::get_id
get_id(b, node) == get_full(b, node).value

\* get_raw that resolves an unknown id to the latest node of the bridge.
GetRawClamps(b, node_id) ==
    IF len(b) = 0 THEN NoNode
    ELSE IF node_id < len(b) THEN b.mirrored_im[node_id + 1].key
    ELSE b.mirrored_im[len(b)].key

\* TsNodeBridge::get_raw
get_raw(b, node_id) == get_index(b, node_id).key

\* The bridge of the state.
TheBridge == Bridge(mirrored_im, v8_map)

\* The loop without the lookup of insert: every node is appended.
RECURSIVE InsertAllAppends(_, _)
InsertAllAppends(b, nodes) ==
    IF nodes = <<>> THEN [bridge |-> b, ids |-> <<>>]
    ELSE LET r == InsertAlwaysAppends(b, Head(nodes))
             rest == InsertAllAppends(r.bridge, Tail(nodes))
         IN  [bridge |-> rest.bridge, ids |-> <<r.node_id>> \o rest.ids]

\* The ids insert returned for the nodes, in order, and the bridge after
\* the inserts (the for loop of op_ts_node_children, insert_capture's map).
RECURSIVE InsertAll(_, _)
InsertAll(b, nodes) ==
    IF nodes = <<>> THEN [bridge |-> b, ids |-> <<>>]
    ELSE LET r == insert(b, Head(nodes))
             rest == InsertAll(r.bridge, Tail(nodes))
         IN  [bridge |-> rest.bridge, ids |-> <<r.node_id>> \o rest.ids]

\* first_id after inserts of `nodes` returned `ids`.
Assigned(nodes, ids) ==
    [n \in TreeNodes |->
        IF first_id[n] = NoId /\ \E i \in 1..Len(nodes) : nodes[i] = n
        THEN ids[CHOOSE i \in 1..Len(nodes) : nodes[i] = n]
        ELSE first_id[n]]

\* Rust inserts a node of the tree (a capture of the rule's query).
Insert(node) ==
    LET r == insert(TheBridge, node) IN
    /\ mirrored_im' = r.bridge.mirrored_im
    /\ v8_map' = r.bridge.v8_map
    /\ first_id' = Assigned(<<node>>, <<r.node_id>>)
    /\ op_ret' = [NoOp EXCEPT !.op = "insert", !.node = node, !.some = TRUE,
                              !.id = r.node_id]
    /\ UNCHANGED <<validatorVars, scannerVars, cliVars, ignoreVars, parseVars>>

\* TSCaptureContent::Single(node) / TSCaptureContent::Multi(nodes)
Single(node) == [multi |-> FALSE, nodes |-> <<node>>]
Multi(nodes) == [multi |-> TRUE, nodes |-> nodes]

\* The captures of a query on the tree.
Captures ==
    {Single(n) : n \in TreeNodes}
    \cup {Multi(<<>>)}
    \cup {Multi(<<n, m>>) : n \in TreeNodes, m \in TreeNodes}

\* TsNodeBridge::insert_capture: every node of the capture is inserted, in
\* order, and the capture of their ids is returned.
InsertCapture(capture) ==
    LET r == InsertAll(TheBridge, capture.nodes) IN
    /\ mirrored_im' = r.bridge.mirrored_im
    /\ v8_map' = r.bridge.v8_map
    /\ first_id' = Assigned(capture.nodes, r.ids)
    /\ op_ret' = [NoOp EXCEPT !.op = "insert_capture", !.some = TRUE,
                              !.id = IF capture.multi THEN NoId ELSE r.ids[1],
                              !.ids = IF capture.multi THEN r.ids ELSE <<>>]
    /\ UNCHANGED <<validatorVars, scannerVars, cliVars, ignoreVars, parseVars>>

\* clear that empties the Rust side only.
ClearRustSide ==
    /\ mirrored_im' = <<>>
    /\ first_id' = [n \in TreeNodes |-> NoId]
    /\ op_ret' = [NoOp EXCEPT !.op = "clear"]
    /\ UNCHANGED <<validatorVars, scannerVars, cliVars, ignoreVars, parseVars, v8_map>>

\* TsNodeBridge::is_empty
is_empty(b) == len(b) = 0

\* TsNodeBridge::clear
Clear ==
    /\ mirrored_im' = <<>>
    /\ v8_map' = <<>>
    /\ first_id' = [n \in TreeNodes |-> NoId]
    /\ op_ret' = [NoOp EXCEPT !.op = "clear"]
    /\ UNCHANGED <<validatorVars, scannerVars, cliVars, ignoreVars, parseVars>>

\* OpSafeRawTSNode::try_new
try_new(b, node_id) == get_raw(b, node_id)

\* JavaScript calls op_ts_node_text with the id field of a node object,
\* which the rule may have overwritten.
OpTsNodeText(node_id) ==
    LET safe_raw_ts_node == try_new(TheBridge, node_id) IN
    /\ op_ret' = IF safe_raw_ts_node = NoNode
                 THEN [NoOp EXCEPT !.op = "op_ts_node_text", !.node_id = node_id]
                 ELSE [NoOp EXCEPT !.op = "op_ts_node_text", !.node_id = node_id,
                                   !.some = TRUE, !.node = safe_raw_ts_node,
                                   !.text = NodeText(safe_raw_ts_node)]
    /\ UNCHANGED <<validatorVars, scannerVars, cliVars, ignoreVars, parseVars,
                   mirrored_im, v8_map, first_id>>

\* JavaScript calls op_ts_node_children with the id field of a node object.
OpTsNodeChildren(node_id) ==
    LET safe_raw_ts_node == try_new(TheBridge, node_id)
        children == Children(safe_raw_ts_node)
        r == InsertAll(TheBridge, children)
    IN  /\ IF safe_raw_ts_node = NoNode \/ Len(children) = 0
           THEN /\ op_ret' = [NoOp EXCEPT !.op = "op_ts_node_children",
                                          !.node_id = node_id,
                                          !.node = safe_raw_ts_node]
                /\ UNCHANGED <<mirrored_im, v8_map, first_id>>
           ELSE /\ mirrored_im' = r.bridge.mirrored_im
                /\ v8_map' = r.bridge.v8_map
                /\ first_id' = Assigned(children, r.ids)
                /\ op_ret' = [NoOp EXCEPT !.op = "op_ts_node_children",
                                          !.node_id = node_id, !.some = TRUE,
                                          !.node = safe_raw_ts_node,
                                          !.ids = r.ids]
        /\ UNCHANGED <<validatorVars, scannerVars, cliVars, ignoreVars, parseVars>>

\* A rule execution: Rust inserts captured nodes, JavaScript calls the ops,
\* and the bridge is cleared between executions.
NextBridge ==
    \/ \E node \in TreeNodes : Insert(node)
    \/ \E capture \in Captures : InsertCapture(capture)
    \/ Clear
    \/ \E node_id \in NodeIds : OpTsNodeText(node_id)
    \/ \E node_id \in NodeIds : OpTsNodeChildren(node_id)

SpecBridge == InitBuild /\ [][NextBridge]_vars

\* ---------------------------------------------------------- LinesToIgnore

\* Vec::contains
Contains(vec, x) == \E i \in 1..Len(vec) : vec[i] = x

\* The sequences of at most n elements of S.
SeqsUpTo(S, n) == UNION {[1..k -> S] : k \in 0..n}

\* The HashMap<u32, Vec<String>> values: some lines, each with its rules.
PerRuleMaps ==
    UNION {[ls -> SeqsUpTo(RuleNames, MaxIgnored)] : ls \in SUBSET Lines}

\* The LinesToIgnore of the state (self).
TheLinesToIgnore ==
    [lines_to_ignore_per_rule |-> lines_to_ignore_per_rule,
     lines_to_ignore |-> lines_to_ignore,
     ignore_file |-> ignore_file,
     rules_to_ignore |-> rules_to_ignore]

\* should_filter_rule in which an entry for the line filters every rule.
ShouldFilterAnyRuleOfLine(self, rule_name, line) ==
    IF self.ignore_file THEN TRUE
    ELSE IF Contains(self.rules_to_ignore, rule_name) THEN TRUE
    ELSE IF Contains(self.lines_to_ignore, line) THEN TRUE
    ELSE line \in DOMAIN self.lines_to_ignore_per_rule

\* LinesToIgnore::should_filter_rule
should_filter_rule(self, rule_name, line) ==
    IF self.ignore_file THEN TRUE
    ELSE IF Contains(self.rules_to_ignore, rule_name) THEN TRUE
    ELSE IF Contains(self.lines_to_ignore, line) THEN TRUE
    ELSE IF line \in DOMAIN self.lines_to_ignore_per_rule
         THEN Contains(self.lines_to_ignore_per_rule[line], rule_name)
    ELSE FALSE

\* The analysis builds the LinesToIgnore of the file from its comments, once,
\* before any violation is tested.
LinesToIgnoreNew(per_rule, lines, file, rules) ==
    /\ LinesToIgnoreEmpty
    /\ lines_to_ignore_per_rule' = per_rule
    /\ lines_to_ignore' = lines
    /\ ignore_file' = file
    /\ rules_to_ignore' = rules
    /\ filtered' = NoFilter
    /\ UNCHANGED <<validatorVars, scannerVars, cliVars, bridgeVars, parseVars>>

\* A violation of rule_name at line is tested.
ShouldFilterRule(rule_name, line) ==
    /\ filtered' = [rule_name |-> rule_name, line |-> line,
                    value |-> should_filter_rule(TheLinesToIgnore, rule_name, line)]
    /\ UNCHANGED <<validatorVars, scannerVars, cliVars, bridgeVars, parseVars,
                   lines_to_ignore_per_rule, lines_to_ignore, ignore_file,
                   rules_to_ignore>>

NextIgnore ==
    \/ \E per_rule \in PerRuleMaps, lines \in SeqsUpTo(Lines, MaxIgnored),
          file \in BOOLEAN, rules \in SeqsUpTo(RuleNames, MaxIgnored) :
            LinesToIgnoreNew(per_rule, lines, file, rules)
    \/ \E rule_name \in RuleNames, line \in Lines : ShouldFilterRule(rule_name, line)

SpecIgnore == InitBuild /\ [][NextIgnore]_vars

\* ------------------------------------------------------ parse_config_file

\* The deserializer hands the visitors the entries of a YAML mapping one by
\* one in file order, repeated keys included; the documents are read entry
\* by entry, each entry drawn from the sets below.

\* Ruleset names and the values of `only` and `ignore`.
RulesetNames == {"python-security", "go-best-practices"}
PathLists == {<<>>, <<"foo">>}

\* An entry of a `rules` mapping.
RuleEntry(k, v) == [k |-> k, v |-> v]
NoEval == RuleEntry("no-eval", RuleConfig(PathConfigDefault))
NoEvalOnlyFoo == RuleEntry("no-eval", RuleConfig(PathConfig(Some(<<"foo">>), <<>>)))
RandomIv == RuleEntry("random-iv", RuleConfig(PathConfigDefault))

\* The `rules` mappings of the documents: one rule, two rules, and the same
\* rule twice.
RulesMappings == {<<NoEval>>, <<NoEval, RandomIv>>, <<NoEval, NoEvalOnlyFoo>>}

\* The mappings given under a ruleset name.
Mappings ==
    [only : {Absent, Given(<<"foo">>)},
     ignore : {Absent} \cup {Given(p) : p \in PathLists},
     rules : {Absent} \cup {Given(m) : m \in RulesMappings}]

\* The un-indented keys of a list item, each with its value.
Fields ==
    {<<"only", <<"foo">>>>} \cup {<<"ignore", p>> : p \in PathLists}
    \cup {<<"rules", m>> : m \in RulesMappings} \cup {<<"arguments", <<>>>>}

\* HashMap::insert
MapInsert(m, k, v) == [n \in DOMAIN m \cup {k} |-> IF n = k THEN v ELSE m[n]]

\* Result of a deserializer.
Ok(value) == [ok |-> TRUE, error |-> <<>>, value |-> value]
Err(error) == [ok |-> FALSE, error |-> error, value |-> <<>>]

\* RuleConfigVisitor::visit_map: the while loop over the entries.
RECURSIVE RuleConfigVisitMap(_, _)
RuleConfigVisitMap(out, entries) ==
    IF entries = <<>> THEN Ok(out)
    ELSE LET k == Head(entries).k
             v == Head(entries).v
         IN  IF k \in DOMAIN out
             THEN Err(<<"found duplicate rule: ", k>>)
             ELSE RuleConfigVisitMap(MapInsert(out, k, v), Tail(entries))

\* deserialize_ruleconfigs
deserialize_ruleconfigs(entries) == RuleConfigVisitMap(<<>>, entries)

\* Deserialize of HashMap<String, RuleConfig> (map.next_value() of the
\* un-indented `rules`): every entry is inserted.
RECURSIVE HashMapVisitMap(_, _)
HashMapVisitMap(out, entries) ==
    IF entries = <<>> THEN out
    ELSE HashMapVisitMap(MapInsert(out, Head(entries).k, Head(entries).v),
                         Tail(entries))

\* out.cfg.rules = map.next_value()?
NextValueRules(entries) == Ok(HashMapVisitMap(<<>>, entries))

\* Deserialize of RulesetConfig from the mapping under a ruleset name:
\* paths flattened, rules through deserialize_ruleconfigs, absent keys
\* defaulted.
DeserializeRulesetConfig(mapping) ==
    LET rules == IF mapping.rules.given
                 THEN deserialize_ruleconfigs(mapping.rules.value)
                 ELSE Ok(<<>>)
    IN  IF ~rules.ok THEN rules
        ELSE Ok(RulesetConfig(
                  PathConfig(IF mapping.only.given THEN Some(mapping.only.value)
                                                   ELSE None,
                             mapping.ignore.value),
                  rules.value))

\* parse_config_file returns Err.
Fail(error) == [result |-> "Err", error |-> error, rulesets |-> <<>>]

\* The ruleset of these fields in the map form: what `name:` followed by the
\* properly indented fields describes.
MapFormOf(mapping) ==
    RulesetConfig(
        PathConfig(IF mapping.only.given THEN Some(mapping.only.value) ELSE None,
                   mapping.ignore.value),
        [n \in {mapping.rules.value[i].k : i \in 1..Len(mapping.rules.value)} |->
            LET i == CHOOSE i \in 1..Len(mapping.rules.value) :
                         mapping.rules.value[i].k = n
            IN  mapping.rules.value[i].v])

\* A rule name comes twice in the `rules` mapping.
HasRepeat(entries) ==
    \E i, j \in 1..Len(entries) : i < j /\ entries[i].k = entries[j].k

\* The history after the ruleset `name` with these fields has been read.
ReadRuleset(name, mapping) ==
    /\ seen' = [seen EXCEPT !.names = @ \cup {name},
                            !.ruleset_twice = @ \/ name \in seen.names,
                            !.rule_twice = @ \/ HasRepeat(mapping.rules.value)]
    /\ twin' = IF \/ ~twin.ok
                  \/ name \in DOMAIN twin.out
                  \/ HasRepeat(mapping.rules.value)
               THEN [ok |-> FALSE, out |-> <<>>]
               ELSE [ok |-> TRUE, out |-> MapInsert(twin.out, name, MapFormOf(mapping))]

\* deserialize_rulesetconfigs: deserialize_any finds a sequence or a mapping
\* under `rulesets`.
DeserializeAny(form) ==
    /\ rulesets_form = "none"
    /\ rulesets_form' = form
    /\ UNCHANGED <<validatorVars, scannerVars, cliVars, bridgeVars, ignoreVars, rulesets,
                   nrc, parsed, seen, item_given, twin, ill_formed>>

\* out.insert(name, cfg).is_some() of visit_seq and visit_map.
InsertRuleset(name, cfg, message) ==
    IF name \in DOMAIN rulesets
    THEN /\ parsed' = Fail(<<message, name>>)
         /\ UNCHANGED rulesets
    ELSE /\ rulesets' = MapInsert(rulesets, name, cfg)
         /\ UNCHANGED parsed

\* RulesetConfigsVisitor::visit_map: map.next_entry() yields (k, v).
NextEntry(k, mapping) ==
    LET v == DeserializeRulesetConfig(mapping) IN
    /\ rulesets_form = "map"
    /\ parsed = NoParse
    /\ IF ~v.ok
       THEN /\ parsed' = Fail(v.error)
            /\ UNCHANGED rulesets
       ELSE InsertRuleset(k, v.value, "found duplicate ruleset: ")
    /\ ReadRuleset(k, mapping)
    /\ UNCHANGED <<validatorVars, scannerVars, cliVars, bridgeVars, ignoreVars,
                   rulesets_form, nrc, item_given, ill_formed>>

\* The sequence or the mapping has ended: Ok(out).
End ==
    /\ rulesets_form \in {"seq", "map"}
    /\ parsed = NoParse
    /\ ~nrc.open
    /\ parsed' = [result |-> "Ok", error |-> <<>>, rulesets |-> rulesets]
    /\ UNCHANGED <<validatorVars, scannerVars, cliVars, bridgeVars, ignoreVars,
                   rulesets_form, rulesets, nrc, seen, item_given, twin, ill_formed>>

\* RulesetConfigsVisitor::visit_seq: seq.next_element() yields a bare string
\* (NamedRulesetConfigVisitor::visit_str).
NextElementString(v) ==
    /\ rulesets_form = "seq"
    /\ parsed = NoParse
    /\ ~nrc.open
    /\ InsertRuleset(v, RulesetConfigDefault, "duplicate ruleset: ")
    /\ ReadRuleset(v, NullMapping)
    /\ UNCHANGED <<validatorVars, scannerVars, cliVars, bridgeVars, ignoreVars,
                   rulesets_form, nrc, item_given, ill_formed>>

\* The next element is a mapping: NamedRulesetConfigVisitor::visit_map reads
\* its first entry (k, v).
NextElementMap(k, mapping) ==
    LET v == DeserializeRulesetConfig(mapping) IN
    /\ rulesets_form = "seq"
    /\ parsed = NoParse
    /\ ~nrc.open
    /\ IF ~v.ok
       THEN /\ parsed' = Fail(v.error)
            /\ UNCHANGED <<nrc, item_given>>
       ELSE /\ nrc' = [open |-> TRUE, name |-> k, cfg |-> v.value]
            /\ item_given' = mapping
            /\ UNCHANGED parsed
    /\ seen' = [seen EXCEPT !.rule_twice = @ \/ HasRepeat(mapping.rules.value)]
    /\ UNCHANGED <<validatorVars, scannerVars, cliVars, bridgeVars, ignoreVars,
                   rulesets_form, rulesets, twin, ill_formed>>

\* The next element is an empty mapping: Error::missing_field("name").
NextElementEmptyMap ==
    /\ rulesets_form = "seq"
    /\ parsed = NoParse
    /\ ~nrc.open
    /\ parsed' = Fail(<<"missing field: ", "name">>)
    /\ UNCHANGED <<validatorVars, scannerVars, cliVars, bridgeVars, ignoreVars,
                   rulesets_form, rulesets, nrc, seen, item_given, twin, ill_formed>>

\* The item's mapping has a further key x (the user forgot to indent).
NextKey(x, value) ==
    LET duplicate == Fail(<<"duplicate field: ", x>>)
        rules == NextValueRules(value)
    IN  /\ nrc.open
        /\ parsed = NoParse
        /\ CASE x = "only" ->
                  IF nrc.cfg.paths.only.some
                  THEN parsed' = duplicate /\ nrc' = NoItem
                  ELSE /\ nrc' = [nrc EXCEPT !.cfg.paths.only = Some(value)]
                       /\ UNCHANGED parsed
             [] x = "ignore" ->
                  IF nrc.cfg.paths.ignore # <<>>
                  THEN parsed' = duplicate /\ nrc' = NoItem
                  ELSE /\ nrc' = [nrc EXCEPT !.cfg.paths.ignore = value]
                       /\ UNCHANGED parsed
             [] x = "rules" ->
                  IF DOMAIN nrc.cfg.rules # {}
                  THEN parsed' = duplicate /\ nrc' = NoItem
                  ELSE IF ~rules.ok
                  THEN parsed' = Fail(rules.error) /\ nrc' = NoItem
                  ELSE /\ nrc' = [nrc EXCEPT !.cfg.rules = rules.value]
                       /\ UNCHANGED parsed
             [] OTHER ->
                  parsed' = Fail(<<"unknown field: ", x>>) /\ nrc' = NoItem
        /\ IF x \in {"only", "ignore", "rules"}
           THEN IF item_given[x].given
                THEN ill_formed' = TRUE /\ UNCHANGED item_given
                ELSE /\ item_given' = [item_given EXCEPT ![x] = Given(value)]
                     /\ UNCHANGED ill_formed
           ELSE ill_formed' = TRUE /\ UNCHANGED item_given
        /\ seen' = [seen EXCEPT !.rule_twice =
                                    @ \/ (x = "rules" /\ HasRepeat(value))]
        /\ UNCHANGED <<validatorVars, scannerVars, cliVars, bridgeVars, ignoreVars,
                       rulesets_form, rulesets, twin>>

\* The item's mapping has ended: visit_seq receives the NamedRulesetConfig.
ItemEnd ==
    /\ nrc.open
    /\ parsed = NoParse
    /\ InsertRuleset(nrc.name, nrc.cfg, "duplicate ruleset: ")
    /\ ReadRuleset(nrc.name, item_given)
    /\ nrc' = NoItem
    /\ item_given' = NullMapping
    /\ UNCHANGED <<validatorVars, scannerVars, cliVars, bridgeVars, ignoreVars,
                   rulesets_form, ill_formed>>

NextParse ==
    \/ \E form \in {"seq", "map"} : DeserializeAny(form)
    \/ \E k \in RulesetNames, mapping \in Mappings : NextEntry(k, mapping)
    \/ End
    \/ \E v \in RulesetNames : NextElementString(v)
    \/ \E k \in RulesetNames, mapping \in Mappings : NextElementMap(k, mapping)
    \/ NextElementEmptyMap
    \/ \E f \in Fields : NextKey(f[1], f[2])
    \/ ItemEnd

SpecParse == InitBuild /\ [][NextParse]_vars

\* ------------------------------------- RawConfigFile and ConfigFile

\* GlobBuilder::new(value)...build(): whether the string is a glob.
GlobBuilds(value) == value # "["

\* impl From<String> for PathPattern: the compiled glob, if the string is
\* one, and the string as a path prefix.
PathPattern(value) ==
    [glob |-> [some |-> GlobBuilds(value),
               value |-> IF GlobBuilds(value) THEN value ELSE ""],
     prefix |-> value]

\* Vec<PathPattern> deserialized from a YAML list of strings.
PathPatterns(values) == [i \in 1..Len(values) |-> PathPattern(values[i])]

\* An optional scalar key of the document that is not given, and the
\* Option<T> of an optional key.
NoKey(default) == [given |-> FALSE, value |-> default]
OptionOf(key) == [some |-> key.given, value |-> key.value]

\* What deserialize_ruleset_configs returns for the `rulesets` of the
\* documents.
RulesetsValues ==
    {Ok(MapInsert(<<>>, "python-security", RulesetConfigDefault)),
     Err(<<"found duplicate ruleset: ", "python-security">>)}

\* The documents: the top-level keys of a configuration file.
ConfigContents ==
    [rulesets : {NoKey(Err(<<>>))} \cup {Given(r) : r \in RulesetsValues},
     only : {Absent, Given(<<"py/**/foo/*.py">>), Given(<<"[">>)},
     ignore : {Absent, Given(<<"py/testing/*.py">>), Given(<<"path1">>)},
     ignore_paths : {Absent, Given(<<>>), Given(<<"**/test/**", "path1">>)},
     ignore_gitignore : {NoKey(FALSE), Given(FALSE), Given(TRUE)},
     max_file_size_kb : {NoKey(0), Given(512)},
     ignore_generated_files : {NoKey(FALSE), Given(FALSE)}]

\* #[derive(Deserialize)] struct RawConfigFile: `rulesets` has no default,
\* the other keys are optional; `only` and `ignore` are the flattened
\* PathConfig.
RawConfigFile(contents) ==
    IF ~contents.rulesets.given
    THEN Err(<<"missing field: ", "rulesets">>)
    ELSE IF ~contents.rulesets.value.ok
    THEN Err(contents.rulesets.value.error)
    ELSE Ok([schema_version |-> "v1",
             rulesets |-> contents.rulesets.value.value,
             paths |-> PathConfig(
                 IF contents.only.given
                 THEN Some(PathPatterns(contents.only.value)) ELSE None,
                 PathPatterns(contents.ignore.value)),
             ignore_paths |->
                 IF contents.ignore_paths.given
                 THEN Some(PathPatterns(contents.ignore_paths.value)) ELSE None,
             ignore_gitignore |-> OptionOf(contents.ignore_gitignore),
             max_file_size_kb |-> OptionOf(contents.max_file_size_kb),
             ignore_generated_files |-> OptionOf(contents.ignore_generated_files)])

\* bug: the legacy entries come first
ConfigFileFromPrepends(value) ==
    [schema_version |-> value.schema_version,
     rulesets |-> value.rulesets,
     paths |-> IF value.ignore_paths.some
               THEN [value.paths EXCEPT !.ignore = value.ignore_paths.value \o @]
               ELSE value.paths,
     ignore_gitignore |-> value.ignore_gitignore,
     max_file_size_kb |-> value.max_file_size_kb,
     ignore_generated_files |-> value.ignore_generated_files]

\* impl From<RawConfigFile> for ConfigFile
ConfigFileFrom(value) ==
    [schema_version |-> value.schema_version,
     rulesets |-> value.rulesets,
     paths |-> IF value.ignore_paths.some
               THEN [value.paths EXCEPT !.ignore = @ \o value.ignore_paths.value]
               ELSE value.paths,
     ignore_gitignore |-> value.ignore_gitignore,
     max_file_size_kb |-> value.max_file_size_kb,
     ignore_generated_files |-> value.ignore_generated_files]

\* serde_yaml::from_str::<ConfigFile>: #[serde(from = "RawConfigFile")]
from_str(contents) ==
    LET raw == RawConfigFile(contents) IN
    IF raw.ok THEN Ok(ConfigFileFrom(raw.value)) ELSE raw

\* parse_config_file(config_contents)
ParseConfigFile(contents) ==
    /\ parsed = NoParse
    /\ LET r == from_str(contents) IN
       parsed' = IF r.ok
                 THEN [result |-> "Ok", error |-> <<>>,
                       rulesets |-> r.value.rulesets, config_file |-> r.value]
                 ELSE Fail(r.error)
    /\ UNCHANGED <<validatorVars, scannerVars, cliVars, bridgeVars, ignoreVars,
                   rulesets_form, rulesets, nrc, seen, item_given, twin, ill_formed>>

NextConfig == \E contents \in ConfigContents : ParseConfigFile(contents)

SpecConfig == InitBuild /\ [][NextConfig]_vars

\* ------------------------------------------------- CliConfiguration

\* The rules of the configurations: two rules, and a rule with the name and
\* the checksum of the first and another code.
MyRule == Rule_(<<"myrule">>, <<"foobar">>, <<"mycode">>)
MyRuleEdited == Rule_(<<"myrule">>, <<"foobar">>, <<"othercode">>)
OtherRule == Rule_(<<"otherrule">>, <<"barfoo">>, <<"mycode">>)

\* The fields the digest is computed from.
DigestFields ==
    [path_config : {PathConfig(o, i) :
                       o \in {None, Some(<<<<"src">>>>)},
                       i \in {None, Some(<<<<"a">>, <<"b">>>>),
                              Some(<<<<"a", ",", "b">>>>)}},
     ignore_gitignore : BOOLEAN,
     rules : {<<MyRule, OtherRule>>, <<OtherRule, MyRule>>, <<MyRuleEdited, OtherRule>>},
     max_file_size_kb : {1, 512},
     source_subdirectories : {<<>>, <<<<"sub">>>>}]

\* The other fields: those of the test, and each of them changed in turn.
OtherFields ==
    LET test == [f \in {"use_debug", "use_configuration_file", "source_directory",
                        "rules_file", "output_format", "output_file", "num_cpus",
                        "path_restrictions", "use_staging"} |-> TestConfiguration[f]]
    IN  {test,
         [test EXCEPT !.use_debug = FALSE],
         [test EXCEPT !.use_configuration_file = FALSE],
         [test EXCEPT !.source_directory = <<"bli">>],
         [test EXCEPT !.rules_file = [some |-> TRUE, value |-> <<"rules.json">>]],
         [test EXCEPT !.output_format = "Json"],
         [test EXCEPT !.output_file = <<"bar">>],
         [test EXCEPT !.num_cpus = 4],
         [test EXCEPT !.path_restrictions = "restricted"],
         [test EXCEPT !.use_staging = TRUE]}

\* The configurations generate_diff_aware_digest is called on.
CliConfigurations ==
    {[f \in DOMAIN d \cup DOMAIN o |-> IF f \in DOMAIN d THEN d[f] ELSE o[f]] :
        d \in DigestFields, o \in OtherFields}

\* Rule::get_config_hash_string
get_config_hash_string(r) == r.name \o <<":">> \o r.checksum

\* [String]::join(",")
RECURSIVE join(_)
join(v) ==
    IF v = <<>> THEN <<>>
    ELSE IF Len(v) = 1 THEN v[1]
    ELSE v[1] \o <<",">> \o join(Tail(v))

\* Option<Vec<String>>::as_ref().map_or("".to_string(), |v| v.join(","))
JoinOrEmpty(paths) == IF paths.some THEN join(paths.value) ELSE <<>>

\* Display of a bool and of a u64.
DisplayBool(b) == IF b THEN <<"true">> ELSE <<"false">>
DisplayU64(n) == <<ToString(n)>>

\* Sha256::digest(bytes), an opaque value of the bytes, and format!("{:x}").
Sha256Digest(bytes) == [sha256 |-> bytes]
LowerHex(d) == [hex |-> d]

\* bug: the source directory is part of the digest
DigestWithSourceDirectory(self) ==
    LET rules_string == [i \in 1..Len(self.rules) |-> get_config_hash_string(self.rules[i])]
        full_config_string ==
            JoinOrEmpty(self.path_config.ignore) \o <<":">>
            \o JoinOrEmpty(self.path_config.only) \o <<":">>
            \o DisplayBool(self.ignore_gitignore) \o <<":">>
            \o join(rules_string) \o <<":", ":">>
            \o DisplayU64(self.max_file_size_kb) \o <<":">>
            \o join(self.source_subdirectories) \o <<":">>
            \o self.source_directory
    IN  LowerHex(Sha256Digest(full_config_string))

\* CliConfiguration::generate_diff_aware_digest
generate_diff_aware_digest(self) ==
    LET rules_string == [i \in 1..Len(self.rules) |-> get_config_hash_string(self.rules[i])]
        full_config_string ==
            JoinOrEmpty(self.path_config.ignore) \o <<":">>
            \o JoinOrEmpty(self.path_config.only) \o <<":">>
            \o DisplayBool(self.ignore_gitignore) \o <<":">>
            \o join(rules_string) \o <<":", ":">>
            \o DisplayU64(self.max_file_size_kb) \o <<":">>
            \o join(self.source_subdirectories)
    IN  LowerHex(Sha256Digest(full_config_string))

\* The analyzer generates the digest of its configuration.
GenerateDiffAwareDigest(self) ==
    /\ cli_configuration' = self
    /\ digest' = generate_diff_aware_digest(self)
    /\ UNCHANGED <<validatorVars, scannerVars, kernelVars>>

NextCli == \E self \in CliConfigurations : GenerateDiffAwareDigest(self)

SpecCli == InitBuild /\ [][NextCli]_vars

\* ------------------------------------------------------------ properties

TimeErrors == {"RetryTimeExceeded", "RetryWillExceedTime"}

\* C1: one call to validate sends at most Len(delays) = max_attempts
\* requests, and a call that has returned without sending any request
\* returned a time-budget error raised before its first attempt, or
\* InvalidUrl.
C1_AtMostNAtLeastOne ==
    \A t \in Callers :
        /\ sent[t] <= Len(delays)
        /\ (pc[t] = "done" /\ sent[t] = 0) =>
              \/ ret[t].kind = "InvalidUrl"
              \/ ret[t].kind \in TimeErrors /\ ret[t].attempted = 0

\* A call with three delays has sent its three requests and returned.
C1_Witness ==
    \E t \in Callers :
        pc[t] = "done" /\ Len(delays) = 3 /\ sent[t] = 3

\* C2: a rate-limit wait consumes neither a delay of the iterator nor an
\* attempt: however many waits there were, the delays consumed are the
\* attempts made, plus the one being prepared; and the clock units waited are
\* part of the elapsed time that is held against the budget and reported.
C2_WaitsConsumeNoAttempt ==
    \A t \in Callers :
        /\ attempted[t] = sent[t]
        /\ pc[t] \in {"loop", "rl_sleep", "send"} => iter[t] = attempted[t] + 1
        /\ pc[t] \in {"idle", "while", "request", "retry_sleep"} => iter[t] = attempted[t]
        /\ pc[t] = "done" => iter[t] \in {attempted[t], attempted[t] + 1}
        /\ pc[t] \in {"while", "loop", "send", "request", "retry_sleep"} =>
              Elapsed(t) >= rl_waited[t]
        /\ (pc[t] = "done" /\ ret[t].kind \in TimeErrors \cup {"RetryAttemptsExceeded"}) =>
              ret[t].elapsed >= rl_waited[t]

\* After two rate-limit waits the call has still sent one request per delay.
C2_Witness ==
    \E t \in Callers :
        /\ pc[t] = "done"
        /\ rl_waits[t] >= 2
        /\ Len(delays) >= 2
        /\ sent[t] = Len(delays)

\* C3: when the classifier answered RetryAfter(d) for an attempt that is not
\* the last and the next scheduled delay is below d, at least d clock units
\* lie between that answer and the sending of the next request.
C3_RetryAfterHonoured ==
    \A t \in Callers :
        (pc[t] = "request" /\ hint[t].set) => req_at[t] - hint[t].at >= hint[t].d

\* C4: Abort, ReturnResult(c) and Unhandled make validate return at once
\* with RequestedAbort, Ok(c) and UnhandledResponse, without another request
\* or sleep; only Retry and RetryAfter lead to a sleep or to the next turn of
\* the loop; and a call that has returned does nothing more.
C4_ClassifierDrives ==
    [][\A t \in Callers :
        /\ (pc[t] = "request" /\ pc'[t] # "request") =>
              /\ last_action'[t].kind = "Abort" =>
                    /\ pc'[t] = "done"
                    /\ ret'[t].kind = "RequestedAbort"
              /\ last_action'[t].kind = "ReturnResult" =>
                    /\ pc'[t] = "done"
                    /\ ret'[t].kind = "Ok"
                    /\ ret'[t].category = last_action'[t].category
              /\ last_action'[t].kind = "Unhandled" =>
                    /\ pc'[t] = "done"
                    /\ ret'[t].kind = "UnhandledResponse"
              /\ pc'[t] \in {"retry_sleep", "while"} =>
                    last_action'[t].kind \in {"Retry", "RetryAfter"}
              /\ pc'[t] = "done" =>
                    /\ sent'[t] = sent[t]
                    /\ slept'[t] = slept[t]
                    /\ rl_waits'[t] = rl_waits[t]
        /\ pc[t] = "done" =>
              /\ pc'[t] = "done"
              /\ ret'[t] = ret[t]
              /\ sent'[t] = sent[t]
              /\ slept'[t] = slept[t]
              /\ rl_waits'[t] = rl_waits[t]
              /\ permits'[t] = permits[t]
      ]_vars

\* The first of three possible attempts was answered Unhandled and validate
\* has returned UnhandledResponse.
C4_Witness ==
    \E t \in Callers :
        /\ pc[t] = "done"
        /\ ret[t].kind = "UnhandledResponse"
        /\ last_action[t].kind = "Unhandled"
        /\ Len(delays) = 3
        /\ sent[t] = 1

RECURSIVE SumFirst(_, _)
\* delays[1] + ... + delays[n]
SumFirst(seq, n) == IF n = 0 THEN 0 ELSE seq[n] + SumFirst(seq, n - 1)

\* C5: when every answer was Retry, the limiter never refused and the budget
\* was not reached, validate has sent exactly N = Len(delays) requests, has
\* slept exactly N - 1 times (for the first N - 1 delays, never after the last
\* attempt) and returns RetryAttemptsExceeded with attempted = N and an
\* elapsed time of at least the sum of the first N - 1 delays.
C5_RetryBudget ==
    \A t \in Callers :
        ( /\ pc[t] = "done"
          /\ only_retry[t]
          /\ rl_waits[t] = 0
          /\ ret[t].kind \notin TimeErrors \cup {"InvalidUrl"} ) =>
            /\ ret[t].kind = "RetryAttemptsExceeded"
            /\ ret[t].attempted = Len(delays)
            /\ sent[t] = Len(delays)
            /\ slept[t] = Len(delays) - 1
            /\ slept_for[t] = SumFirst(delays, Len(delays) - 1)
            /\ ret[t].elapsed >= SumFirst(delays, Len(delays) - 1)

\* Three attempts all answered Retry, two sleeps, RetryAttemptsExceeded.
C5_Witness ==
    \E t \in Callers :
        /\ pc[t] = "done"
        /\ only_retry[t]
        /\ rl_waits[t] = 0
        /\ ret[t].kind = "RetryAttemptsExceeded"
        /\ ret[t].attempted = 3
        /\ slept[t] = 2
        /\ slept_for[t] >= 1

\* to_sleep after the answer a, computed from the delays.
C6_ToSleep(t, a) ==
    delays[iter[t]]
      + IF a.kind = "RetryAfter" /\ a.hint > delays[iter[t] + 1]
        THEN a.hint - delays[iter[t] + 1]
        ELSE 0

\* C6: after an attempt answered Retry or RetryAfter with a delay left in the
\* iterator, validate returns RetryWillExceedTime{attempted, elapsed,
\* next_delay = to_sleep} without sleeping exactly when
\* elapsed + to_sleep >= max_attempt_duration, and otherwise sleeps to_sleep
\* (at least) and goes on to the next attempt.
C6_BudgetBeforeRetrySleep ==
    [][\A t \in Callers :
        /\ ( /\ pc[t] = "request" /\ pc'[t] # "request"
             /\ last_action'[t].kind \in {"Retry", "RetryAfter"}
             /\ iter[t] < Len(delays) ) =>
              IF (now - start_time[t]) + C6_ToSleep(t, last_action'[t])
                    >= max_attempt_duration
              THEN /\ pc'[t] = "done"
                   /\ ret'[t] = Return("RetryWillExceedTime", attempted[t],
                                        now - start_time[t],
                                        C6_ToSleep(t, last_action'[t]), "none")
                   /\ slept'[t] = slept[t]
                   /\ sent'[t] = sent[t]
              ELSE /\ pc'[t] = "retry_sleep"
                   /\ wake'[t] = now + C6_ToSleep(t, last_action'[t])
                   /\ slept'[t] = slept[t] + 1
                   /\ ret'[t] = NoReturn
        /\ (pc[t] = "retry_sleep" /\ pc'[t] # "retry_sleep") =>
              /\ now >= wake[t]
              /\ pc'[t] = "while"
              /\ iter[t] < Len(delays)
      ]_vars

\* One request of three, answered Retry, and the delay does not fit.
C6_Witness ==
    \E t \in Callers :
        /\ pc[t] = "done"
        /\ ret[t].kind = "RetryWillExceedTime"
        /\ Len(delays) = 3
        /\ sent[t] = 1
        /\ iter[t] = 1
        /\ rl_waits[t] = 0
        /\ last_action[t].kind = "Retry"
        /\ ret[t].next_delay >= max_attempt_duration
        /\ max_attempt_duration >= 1

\* C7: a request is sent only after the budget check of the same iteration
\* saw elapsed <= max_attempt_duration; and once a request has returned with
\* the budget spent, the call sends no request and starts no sleep any more:
\* it returns, with RetryWillExceedTime when a delay is left.
C7_BudgetCheckedBeforeRequest ==
    [][\A t \in Callers :
        /\ (pc[t] # "request" /\ pc'[t] = "request") =>
              /\ checked[t].iter = iter[t]
              /\ checked[t].elapsed <= max_attempt_duration
        /\ ( /\ pc[t] = "request" /\ pc'[t] # "request"
             /\ now - start_time[t] > max_attempt_duration ) =>
              /\ overran'[t]
              /\ pc'[t] \in {"done", "while"}
              /\ pc'[t] = "while" => iter[t] = Len(delays)
              /\ (pc'[t] = "done" /\ last_action'[t].kind \in {"Retry", "RetryAfter"}) =>
                    ret'[t].kind = "RetryWillExceedTime"
        /\ overran[t] =>
              /\ sent'[t] = sent[t]
              /\ slept'[t] = slept[t]
              /\ rl_waits'[t] = rl_waits[t]
              /\ pc'[t] \in {"while", "done"}
      ]_vars

\* A request overran the budget and the call returned RetryWillExceedTime.
C7_Witness ==
    \E t \in Callers :
        /\ pc[t] = "done"
        /\ overran[t]
        /\ ret[t].kind = "RetryWillExceedTime"
        /\ sent[t] < Len(delays)

\* C8 as stated: the elapsed time of a time-budget error is at most
\* max_attempt_duration plus one clock unit, however long a request or a sleep
\* took.
C8_ElapsedWithinEpsilon ==
    \A t \in Callers :
        (pc[t] = "done" /\ ret[t].kind \in TimeErrors) =>
            ret[t].elapsed <= max_attempt_duration + 1

\* C8 amended: the elapsed time of a time-budget error exceeds
\* max_attempt_duration by at most the time the call's latest HTTP request
\* took or its latest sleep overslept.
C8_ElapsedWithinLastBlock ==
    \A t \in Callers :
        (pc[t] = "done" /\ ret[t].kind \in TimeErrors) =>
            ret[t].elapsed <= max_attempt_duration + last_block[t]

\* A time-budget error whose elapsed time is the budget plus a request or an
\* oversleep of two clock units and more.
C8_Witness ==
    \E t \in Callers :
        /\ pc[t] = "done"
        /\ ret[t].kind \in TimeErrors
        /\ last_block[t] >= 2
        /\ ret[t].elapsed = max_attempt_duration + last_block[t]

\* C9: every call to validate that has been entered returns.
C9_ValidateReturns ==
    \A t \in Callers : (pc[t] \notin {"off", "idle", "done"}) ~> (pc[t] = "done")

\* A call has returned after the limiter refused it twice.
C9_Witness ==
    \E t \in Callers :
        /\ pc[t] = "done"
        /\ rl_waits[t] >= 2
        /\ ret[t].kind = "RetryWillExceedTime"
        /\ ret[t].attempted = 0

RECURSIVE SumOver(_, _)
\* the sum of f[t] over the callers t in S
SumOver(f, S) ==
    IF S = {} THEN 0
    ELSE LET t == CHOOSE x \in S : TRUE IN f[t] + SumOver(f, S \ {t})

\* C10: under any interleaving of concurrent calls, each request a call sends
\* uses up an Ok answer the shared limiter gave to that call in the same
\* iteration: a call never has sent more requests than it was granted, holds
\* at most one unused grant (one per iteration), and all callers together
\* have sent no more requests than the limiter granted.
C10_RequestsWithinPermits ==
    /\ granted = SumOver(permits, Callers)
    /\ SumOver(sent, Callers) <= granted
    /\ \A t \in Callers :
        /\ sent[t] <= permits[t]
        /\ permits[t] <= sent[t] + 1
        /\ permits[t] <= iter[t]
        /\ pc[t] = "send" => permits[t] = sent[t] + 1
        /\ pc[t] \in {"request", "retry_sleep", "while", "loop", "rl_sleep"} =>
              permits[t] = sent[t]

\* Two calls have a request in flight at once, one of them after a
\* rate-limit wait.
C10_Witness ==
    \E t, u \in Callers :
        /\ t # u
        /\ pc[t] = "request"
        /\ pc[u] = "request"
        /\ rl_waits[u] >= 1
        /\ granted >= 2


\* C11: the attempted cache suppresses duplicate network calls: a call whose
\* candidate an earlier call on the same validator had already submitted
\* finds it in the attempted cache and sends no HTTP request.
C11_CacheSuppressesDuplicates ==
    \A t \in Callers :
        resubmit[t] => (candidate[t] \in attempted_cache /\ sent[t] = 0)


\* C12: when the URL formatted from the candidate does not parse, validate
\* returns InvalidUrl carrying the formatted string and the parse error
\* without sending a request or counting an attempt, and the call then
\* does nothing more; a URL that parses never yields InvalidUrl.
C12_InvalidUrlNotRetried ==
    [][\A t \in Callers :
        /\ (pc[t] = "send" /\ pc'[t] # "send") =>
              IF url_ok[t]
              THEN /\ pc'[t] = "request"
                   /\ ret'[t] = NoReturn
              ELSE /\ pc'[t] = "done"
                   /\ ret'[t].kind = "InvalidUrl"
                   /\ ret'[t].payload.url = FormatUrl(candidate[t])
                   /\ ret'[t].payload.error = "ParseError"
                   /\ sent'[t] = sent[t]
                   /\ attempted'[t] = attempted[t]
                   /\ slept'[t] = slept[t]
        /\ (pc[t] = "done" /\ ret[t].kind = "InvalidUrl") =>
              /\ pc'[t] = "done"
              /\ ret'[t] = ret[t]
              /\ sent'[t] = sent[t]
              /\ attempted'[t] = attempted[t]
              /\ iter'[t] = iter[t]
      ]_vars

\* A call with retries left has returned InvalidUrl after a rate-limit wait,
\* with no request sent.
C12_Witness ==
    \E t \in Callers :
        /\ pc[t] = "done"
        /\ ret[t].kind = "InvalidUrl"
        /\ ret[t].payload.url = <<"http://host/?id=", candidate[t].captures.org_id>>
        /\ ~url_ok[t]
        /\ rl_waits[t] >= 1
        /\ Len(delays) >= 2
        /\ sent[t] = 0
        /\ attempted[t] = 0


\* C13: a request that ends in a transport error has been counted as one
\* attempt, is handed to the classifier, and what validate does next is what
\* the classifier's answer dictates: Abort and Unhandled return
\* RequestedAbort and UnhandledResponse carrying the transport error,
\* ReturnResult(c) returns Ok(c), Retry and RetryAfter go on to the sleep or
\* the next turn of the loop unless the time budget forbids it; no other
\* error is returned and no attempt is counted twice.
C13_TransportErrorClassified ==
    [][\A t \in Callers : \A a \in NextAction :
        Response(t, "transport_error", a) =>
            /\ attempted[t] >= 1
            /\ attempted[t] = sent[t]
            /\ attempted'[t] = attempted[t]
            /\ sent'[t] = sent[t]
            /\ a.kind = "Abort" =>
                  /\ pc'[t] = "done"
                  /\ ret'[t].kind = "RequestedAbort"
                  /\ ret'[t].payload.response = "transport_error"
            /\ a.kind = "Unhandled" =>
                  /\ pc'[t] = "done"
                  /\ ret'[t].kind = "UnhandledResponse"
                  /\ ret'[t].payload.response = "transport_error"
            /\ a.kind = "ReturnResult" =>
                  /\ pc'[t] = "done"
                  /\ ret'[t].kind = "Ok"
                  /\ ret'[t].category = a.category
            /\ a.kind \in {"Retry", "RetryAfter"} =>
                  \/ /\ pc'[t] = "retry_sleep"
                     /\ iter[t] < Len(delays)
                     /\ ret'[t] = NoReturn
                  \/ /\ pc'[t] = "while"
                     /\ iter[t] = Len(delays)
                     /\ ret'[t] = NoReturn
                  \/ /\ pc'[t] = "done"
                     /\ iter[t] < Len(delays)
                     /\ ret'[t].kind = "RetryWillExceedTime"
                     /\ ret'[t].attempted = attempted[t]
      ]_vars

\* The second request of a call ended in a transport error, the classifier
\* answered Unhandled, and validate returned that error.
C13_Witness ==
    \E t \in Callers :
        /\ pc[t] = "done"
        /\ ret[t].kind = "UnhandledResponse"
        /\ ret[t].payload.response = "transport_error"
        /\ last_action[t].kind = "Unhandled"
        /\ sent[t] = 2
        /\ attempted[t] = 2


\* C14 as stated: the first delay is slept before the first attempt, so with
\* a limiter that never refuses at least delays[1] lies between the start of
\* validate and its first request.
C14_FirstDelayBeforeFirstAttempt ==
    \A t \in Callers :
        (pc[t] = "request" /\ sent[t] = 1 /\ rl_waits[t] = 0) =>
            req_at[t] - start_time[t] >= delays[1]

\* C14 amended: with a limiter that never refuses, the first request is sent
\* at the instant validate starts, and the first delay is slept after the
\* first attempt: the sleep that follows it lasts at least delays[1], and at
\* least delays[1] lies between the start of validate and its second request.
C14_FirstDelayAfterFirstAttempt ==
    \A t \in Callers :
        /\ (pc[t] = "request" /\ sent[t] = 1 /\ rl_waits[t] = 0) =>
              req_at[t] = start_time[t]
        /\ (pc[t] = "retry_sleep" /\ sent[t] = 1) =>
              /\ slept_for[t] >= delays[1]
              /\ wake[t] >= start_time[t] + delays[1]
        /\ (pc[t] = "request" /\ sent[t] = 2) =>
              /\ slept_for[t] >= delays[1]
              /\ req_at[t] - start_time[t] >= slept_for[t] + rl_waited[t]

\* The second request of a call whose first delay is not zero and whose
\* limiter never refused is in flight, a delay after the start.
C14_Witness ==
    \E t \in Callers :
        /\ pc[t] = "request"
        /\ sent[t] = 2
        /\ rl_waits[t] = 0
        /\ delays[1] >= 1
        /\ req_at[t] - start_time[t] = delays[1]


\* The rule file held by the i-th source try_build took, when the source can
\* be read and is well-formed YAML.
SourceReadable(i) ==
    ReadSource(taken[i]).ok /\ ParseYaml(ReadSource(taken[i]).text).ok

SourceRule(i) == ParseYaml(ReadSource(taken[i]).text).rule

\* The input variable of a check is `candidate` or `candidate.captures.<name>`.
IsCandidateVariable(v) ==
    \/ Len(v) = 1 /\ v[1] = "candidate"
    \/ Len(v) = 3 /\ v[1] = "candidate" /\ v[2] = "captures"

\* The i-th source can be read and parsed, its pattern is a regex and its
\* checks are over candidate variables.
SourceCompiles(i) ==
    /\ SourceReadable(i)
    /\ RegexCompiles(SourceRule(i).pattern)
    /\ \A k \in 1..Len(SourceRule(i).checks) :
          IsCandidateVariable(SourceRule(i).checks[k].input)

\* An earlier source has the rule id of the i-th source.
RepeatsRuleId(i) ==
    \E j \in 1..(i - 1) : SourceReadable(j) /\ SourceRule(j).id = SourceRule(i).id

\* C15: when the sources compile and their rule ids are pairwise distinct,
\* try_build returns a Scanner (unless Hyperscan refuses to compile the
\* matcher) and the Scanner has exactly one rule per source, with the
\* source's id; when the sources compile and a rule id occurs twice,
\* try_build returns DuplicateRuleId; and DuplicateRuleId names the id of the
\* source being processed, which an earlier source has too, and is raised
\* before the pattern of that source is registered.
C15_DistinctRuleIds ==
    LET n == Len(taken)
        distinct == \A i \in 1..n : ~RepeatsRuleId(i)
        compile == \A i \in 1..n : SourceCompiles(i)
    IN  /\ build_pc = "built" =>
              /\ distinct
              /\ Len(engine.rules) = n
              /\ \A i \in 1..n : engine.rules[i].rule_id = SourceRule(i).id
        /\ (build_pc \in {"built", "failed"} /\ compile /\ distinct) =>
              \/ build_pc = "built"
              \/ build_result = BuilderError("CompilationError", "none")
        /\ (build_pc \in {"built", "failed"} /\ compile /\ ~distinct) =>
              build_result.kind = "DuplicateRuleId"
        /\ build_result.kind = "DuplicateRuleId" =>
              /\ build_pc = "failed"
              /\ SourceReadable(consumed)
              /\ build_result.rule = SourceRule(consumed).id
              /\ RepeatsRuleId(consumed)
              /\ Len(hs_builder) = consumed - 1
              /\ Len(built_rules) = consumed - 1
              /\ Cardinality(rule_mapping) = consumed - 1

\* try_build has returned a Scanner with the rules of two sources.
C15_Witness ==
    /\ build_pc = "built"
    /\ Len(taken) = 2
    /\ Len(engine.rules) = 2
    /\ engine.rules[1].rule_id # engine.rules[2].rule_id


\* What compile_rule_mut answers for the i-th source when the sources before
\* it compiled.
SourceError(i) ==
    IF ~ReadSource(taken[i]).ok THEN BuilderError("Io", "none")
    ELSE IF ~SourceReadable(i) THEN BuilderError("InvalidYamlSyntax", "none")
    ELSE IF RepeatsRuleId(i) THEN BuilderError("DuplicateRuleId", SourceRule(i).id)
    ELSE IF ~SourceCompiles(i) THEN BuilderError("RuleCompilationError", SourceRule(i).id)
    ELSE NoError

\* C16: try_build takes the sources in insertion order and processes them one
\* by one in that order; it stops at the first source that fails, with that
\* source's error: no source after it is parsed, registered on the matcher or
\* given a validator, the matcher is not compiled and no Scanner is returned,
\* then or later; a Scanner is returned only when every source compiled.
C16_ShortCircuit ==
    [][/\ rule_sources' # rule_sources =>
             \/ /\ Len(rule_sources') = Len(rule_sources) + 1
                /\ SubSeq(rule_sources', 1, Len(rule_sources)) = rule_sources
             \/ /\ taken' = rule_sources
                /\ consumed' = 0
       /\ consumed' # consumed =>
             /\ consumed' = consumed + 1
             /\ taken' = taken
             /\ \A j \in 1..consumed : SourceError(j) = NoError
             /\ build_result' = SourceError(consumed')
             /\ IF SourceError(consumed') = NoError
                THEN /\ build_pc' = "loop"
                     /\ Len(built_rules') = consumed'
                     /\ built_rules'[consumed'].rule_id = SourceRule(consumed').id
                ELSE /\ build_pc' = "failed"
                     /\ Len(built_rules') = consumed
                     /\ Len(built_validators') = consumed
                     /\ Len(hs_builder') <= consumed'
                     /\ engine' = NoEngine
       /\ build_pc = "failed" =>
             /\ build_pc' = "failed"
             /\ UNCHANGED scannerVars
       /\ engine' # engine =>
             /\ build_pc' = "built"
             /\ consumed = Len(taken)
             /\ \A j \in 1..Len(taken) : SourceError(j) = NoError
      ]_vars

\* try_build has failed on the first of two sources, a pattern that is no
\* regex; the second source, which compiles, was not processed.
C16_Witness ==
    /\ build_pc = "failed"
    /\ Len(taken) = 2
    /\ consumed = 1
    /\ build_result = BuilderError("RuleCompilationError", "rule-one")
    /\ SourceCompiles(2)
    /\ SourceRule(2).id = "rule-two"
    /\ built_rules = <<>>
    /\ built_validators = <<>>
    /\ engine = NoEngine


\* C17: every capture a built rule's checks are targeted at is a named
\* capture of the rule's pattern: a source with a check on
\* candidate.captures.<name>, <name> being no capture of its pattern, makes
\* try_build fail with RuleCompilationError for that rule.
C17_CheckCapturesInPattern ==
    /\ \A i \in 1..Len(built_rules) :
          \A k \in 1..Len(built_rules[i].checks) :
              built_rules[i].checks[k].target.kind = "Capture" =>
                  built_rules[i].checks[k].target.name
                      \in CaptureNames(hs_builder[built_rules[i].pattern_id])
    /\ \A i \in 1..consumed :
          ( /\ SourceCompiles(i)
            /\ ~RepeatsRuleId(i)
            /\ \E k \in 1..Len(SourceRule(i).checks) :
                  LET v == SourceRule(i).checks[k].input
                  IN  Len(v) = 3 /\ v[3] \notin CaptureNames(SourceRule(i).pattern) ) =>
              /\ consumed = i
              /\ build_result = BuilderError("RuleCompilationError", SourceRule(i).id)


\* C18: a validator is built only from URL and header templates whose
\* variables are `candidate` or `candidate.captures.<name>`: a source whose
\* templates hold another variable makes try_build fail with
\* RuleCompilationError for that rule, so that no validator with an unknown
\* variable exists when validate runs.
C18_UnknownTemplateVariable ==
    /\ \A i \in 1..Len(built_validators) :
          \A v \in TemplateVariables(built_validators[i].request) :
              IsCandidateVariable(v)
    /\ \A i \in 1..consumed :
          ( /\ SourceCompiles(i)
            /\ ~RepeatsRuleId(i)
            /\ \E v \in TemplateVariables(SourceRule(i).request) :
                  ~IsCandidateVariable(v) ) =>
              /\ consumed = i
              /\ build_result = BuilderError("RuleCompilationError", SourceRule(i).id)


\* C19: after every successfully processed source and in the Scanner built,
\* the built rules, the built validators and the entries of rule_mapping are
\* as many as the sources processed; each rule's pattern_id is the id under
\* which its own pattern was registered on the matcher, and is what
\* rule_mapping records for the rule; each rule's validator_id is
\* "validator-http_" + rule_id and is the id of exactly one built validator,
\* the one built with the rule; pattern ids and validator ids are pairwise
\* distinct.
C19_RuleReferences ==
    build_pc \in {"loop", "built"} =>
        /\ Len(built_rules) = consumed
        /\ Len(built_validators) = consumed
        /\ Cardinality(rule_mapping) = consumed
        /\ Len(hs_builder) = consumed
        /\ \A i \in 1..consumed :
              LET r == built_rules[i]
              IN  /\ r.rule_id = SourceRule(i).id
                  /\ r.pattern_id \in 1..Len(hs_builder)
                  /\ hs_builder[r.pattern_id] = SourceRule(i).pattern
                  /\ <<r.rule_id, r.pattern_id>> \in rule_mapping
                  /\ r.validator_id = <<"validator-http_", r.rule_id>>
                  /\ built_validators[i].id = r.validator_id
                  /\ Cardinality({j \in 1..Len(built_validators) :
                                    built_validators[j].id = r.validator_id}) = 1
        /\ \A i, j \in 1..consumed :
              i # j =>
                  /\ built_rules[i].pattern_id # built_rules[j].pattern_id
                  /\ built_rules[i].validator_id # built_rules[j].validator_id
        /\ build_pc = "built" =>
              /\ engine.rules = built_rules
              /\ engine.validators = built_validators
              /\ engine.patterns = hs_builder

\* The first of two sources has been processed, the second has not yet.
C19_Witness ==
    /\ build_pc = "loop"
    /\ Len(taken) = 2
    /\ consumed = 1
    /\ Len(built_rules) = 1
    /\ built_rules[1].validator_id = <<"validator-http_", "rule-two">>
    /\ rule_mapping = {<<"rule-two", 1>>}


\* A check of a rule file holds of a match: its values contain (any-of) or
\* do not contain (none-of) the text of its input, the full match for
\* `candidate` and the capture for `candidate.captures.<name>`.
RawCheckHolds(raw_check, m) ==
    LET holds(text) == IF raw_check.op = "any-of"
                       THEN text \in raw_check.values
                       ELSE text \notin raw_check.values
    IN  IF Len(raw_check.input) = 1
        THEN holds(m.full)
        ELSE /\ raw_check.input[3] \in DOMAIN m.captures
             /\ holds(m.captures[raw_check.input[3]])

\* Every check of the rule file whose pattern matched holds of the match.
AllChecksHold(m) ==
    \A k \in 1..Len(SourceRule(m.pattern_id).checks) :
        RawCheckHolds(SourceRule(m.pattern_id).checks[k], m)

\* C20: the candidates scan returns are, in order, the matches of which every
\* check of the matching rule holds, each with the rule's id, the full match
\* and the captures: a match with one failing check yields no candidate (org_id
\* = "abc" with any-of ["xyz"] yields none, with any-of ["abc", "xyz"] it
\* yields the candidate).
C20_CandidateIffChecksPass ==
    build_pc = "built" =>
        LET expected == SelectSeq(scanned, AllChecksHold)
        IN  /\ Len(candidates) = Len(expected)
            /\ \A i \in 1..Len(expected) :
                  /\ candidates[i].rule_id = SourceRule(expected[i].pattern_id).id
                  /\ candidates[i].full_match = expected[i].full
                  /\ candidates[i].captures = expected[i].captures
            /\ \A i \in 1..Len(scanned) :
                  LET checks == SourceRule(scanned[i].pattern_id).checks
                  IN  /\ ( /\ Len(scanned) = 1
                           /\ scanned[i].captures.org_id = "abc"
                           /\ checks = <<RawCheck("any-of", VarCapture("org_id"), {"xyz"})>> )
                         => candidates = <<>>
                      /\ ( /\ Len(scanned) = 1
                           /\ scanned[i].captures.org_id = "abc"
                           /\ checks = <<RawCheck("any-of", VarCapture("org_id"),
                                                  {"abc", "xyz"})>> )
                         => Len(candidates) = 1

\* Of two matches, org_id = "abc" and org_id = "xyz", of a rule with the
\* check any-of ["xyz"], scan has returned the second only.
C20_Witness ==
    /\ build_pc = "built"
    /\ Len(scanned) = 2
    /\ scanned[1].pattern_id = scanned[2].pattern_id
    /\ SourceRule(scanned[1].pattern_id).checks
         = <<RawCheck("any-of", VarCapture("org_id"), {"xyz"})>>
    /\ scanned[1].captures.org_id = "abc"
    /\ scanned[2].captures.org_id = "xyz"
    /\ Len(candidates) = 1
    /\ candidates[1].full_match = "xyz_018cf028"


\* A check of the rule file whose pattern matched is on a named capture the
\* match did not produce.
CaptureMissing(m) ==
    \E k \in 1..Len(SourceRule(m.pattern_id).checks) :
        LET v == SourceRule(m.pattern_id).checks[k].input
        IN  Len(v) = 3 /\ v[3] \notin DOMAIN m.captures

\* C21: when the latest scan met a match whose rule has a check on a named
\* capture the match did not produce, scan_file returned Ok, that match gave
\* no candidate, and the candidates returned are those of the other matches
\* of the scan of which every check holds, in order.
C21_MissingCaptureDiscards ==
    (build_pc = "built" /\ \E i \in 1..Len(scanned) : CaptureMissing(scanned[i])) =>
        LET others == SelectSeq(scanned,
                          LAMBDA m : ~CaptureMissing(m) /\ AllChecksHold(m))
        IN  /\ scan_result = "Ok"
            /\ Len(candidates) = Len(others)
            /\ \A i \in 1..Len(others) :
                  /\ candidates[i].rule_id = SourceRule(others[i].pattern_id).id
                  /\ candidates[i].full_match = others[i].full
                  /\ candidates[i].captures = others[i].captures

\* A scan of two matches: the first of a rule with a check on the capture
\* `team`, which no match has, the second of a rule whose check holds; scan
\* returned Ok with the second as its only candidate.
C21_Witness ==
    /\ build_pc = "built"
    /\ scan_result = "Ok"
    /\ Len(scanned) = 2
    /\ SourceRule(scanned[1].pattern_id).checks
         = <<RawCheck("any-of", VarCapture("team"), {"abc"})>>
    /\ scanned[1].captures.org_id = "abc"
    /\ SourceRule(scanned[2].pattern_id).checks
         = <<RawCheck("any-of", VarCapture("org_id"), {"abc", "xyz"})>>
    /\ Len(candidates) = 1
    /\ candidates[1].rule_id = SourceRule(scanned[2].pattern_id).id
    /\ candidates[1].full_match = scanned[2].full


\* The candidates the rule files of the sources give for the matches of the
\* latest scan: the matches of which every check holds, in emission order.
CandidatesOfSources ==
    LET passing == SelectSeq(scanned, AllChecksHold)
    IN  [i \in 1..Len(passing) |->
            CandidateOf(SourceRule(passing[i].pattern_id).id, passing[i].full,
                        passing[i].captures.org_id)]

\* A scan of the bytes of the scan before, by the same Scanner or by one
\* built from the same sources, returned the same candidates.
SameBytesSameCandidates ==
    ( /\ scan_result = "Ok" /\ scan_result' = "Ok"
      /\ build_pc' = "built"
      /\ scanned' = scanned
      /\ taken' = taken ) => candidates' = candidates

\* The second Scanner built from the sources has the rules, patterns and
\* validators of the first.
SecondScannerSame ==
    (scanner_no = 1 /\ scanner_no' = 2) => engine' = engine

SourceRuleWithId(rule_id) ==
    SourceRule(CHOOSE j \in 1..Len(taken) : SourceRule(j).id = rule_id)

\* A template of a rule file with `${{ candidate }}` replaced by the full
\* match of k and `${{ candidate.captures.<name> }}` by the text of the capture.
Substituted(template, k) ==
    [i \in 1..Len(template) |->
        CASE template[i].var = <<>> -> template[i].text
          [] template[i].var = <<"candidate">> -> k.full_match
          [] OTHER -> k.captures[template[i].var[3]]]

\* The call of validate_candidate is on a candidate of a scan, the validator
\* invoked is the one built for the candidate's rule, and a request sent is
\* the request of that rule's file with the candidate substituted.
RequestOfOwnRule(t) ==
    pc[t] \notin {"off", "idle"} =>
        LET k == candidate[t]
            file == SourceRuleWithId(k.rule_id)
        IN  /\ \E j \in 1..Len(taken) : SourceRule(j).id = k.rule_id
            /\ http_validator.id = <<"validator-http_", k.rule_id>>
            /\ sent[t] >= 1 =>
                  /\ last_request[t].method = "GET"
                  /\ last_request[t].url = Substituted(file.request.url, k)
                  /\ last_request[t].headers = Substituted(file.request.headers, k)
                  /\ k.rule_id = "rule-one" =>
                        /\ last_request[t].url
                             = <<"http://host/?id=", k.captures.org_id>>
                        /\ last_request[t].headers
                             = <<"Authorization: Bearer ", k.full_match>>
            /\ sent[t] = 0 => last_request[t] = NoRequest

\* The response handler yields a result on the first response: validate
\* returns it, having sent one request.
ResultOnFirstResponse(t) ==
    \A r \in ResponseKinds, a \in ScanActions :
        (a.kind = "ReturnResult" /\ sent[t] = 1 /\ Response(t, r, a)) =>
            /\ pc'[t] = "done"
            /\ ret'[t].kind = "Ok"
            /\ ret'[t].category = a.category
            /\ sent'[t] = 1

\* Once validate has returned no request is sent.
NoRequestAfterReturn(t) ==
    pc[t] \in {"done", "returned"} =>
        (sent'[t] = sent[t] /\ last_request'[t] = last_request[t])

\* C23: validate_candidate on a candidate of a scan invokes the validator
\* built for the candidate's own rule; every request it sends has the URL of
\* that rule's file with `${{ candidate.captures.<name> }}` replaced by the
\* capture's text and the headers with `${{ candidate }}` replaced by the full
\* match (for the rule file of the tests: `?id=<org_id>` and `Authorization:
\* Bearer <full match>`); and when the response handler yields a result on
\* the first response, validate returns with exactly one request sent.
C23_DispatchAndSubstitution ==
    /\ [](RequestOfOwnRule(ScanCaller))
    /\ [][ResultOnFirstResponse(ScanCaller)]_vars
    /\ [][NoRequestAfterReturn(ScanCaller)]_vars

\* Of two rules built, the candidate abc_018cf028 of rule-one, the second
\* rule, was validated: one request was sent, GET ?id=abc with Authorization:
\* Bearer abc_018cf028, and the handler's result was returned.
C23_Witness ==
    /\ pc[ScanCaller] = "returned"
    /\ Len(engine.rules) = 2
    /\ engine.rules[2].rule_id = "rule-one"
    /\ candidate[ScanCaller] = CandidateOf("rule-one", "abc_018cf028", "abc")
    /\ sent[ScanCaller] = 1
    /\ last_request[ScanCaller]
         = [method |-> "GET", url |-> <<"http://host/?id=", "abc">>,
            headers |-> <<"Authorization: Bearer ", "abc_018cf028">>]
    /\ ret[ScanCaller].kind = "Ok"
    /\ ret[ScanCaller].category = "Inconclusive"


\* The errors of HttpValidator::validate.
ValidatorErrors ==
    {"RetryTimeExceeded", "RetryWillExceedTime", "RetryAttemptsExceeded",
     "RequestedAbort", "UnhandledResponse", "InvalidUrl"}

\* validate_candidate has returned: it returned Ok, with the error of the
\* validator as ValidationError(kind) and a category as Secret, NotSecret or
\* Inconclusive.
WrappedResult(t) ==
    validation.result # "none" =>
        /\ pc[t] = "returned"
        /\ validation.result = "Ok"
        /\ ret[t].kind \in ValidatorErrors \cup {"Ok"}
        /\ ret[t].kind \in ValidatorErrors =>
              /\ validation.value.kind = "ValidationError"
              /\ validation.value.error = ret[t].kind
        /\ (ret[t].kind = "Ok" /\ ret[t].category = "Valid") =>
              /\ validation.value.kind = "Secret"
              /\ validation.value.category = "Valid"
        /\ (ret[t].kind = "Ok" /\ ret[t].category = "Invalid") =>
              validation.value.kind = "NotSecret"
        /\ (ret[t].kind = "Ok" /\ ret[t].category = "Inconclusive") =>
              validation.value.kind = "Inconclusive"

\* validate is entered by validate_candidate only, on the validator of the
\* candidate's rule, and not again once it has been: the call that returned
\* is the one whose result is wrapped.
ValidateInvokedOnce(t) ==
    /\ (pc[t] # "off" /\ pc[t] # "done") =>
          (validation' = validation /\ start_time'[t] = start_time[t]
           /\ candidate'[t] = candidate[t] /\ http_validator' = http_validator)
    /\ (pc[t] = "off" /\ pc'[t] # "off") =>
          /\ pc'[t] = "while"
          /\ validation = NoValidation
          /\ \E i \in 1..Len(candidates) : candidate'[t] = candidates[i]
          /\ http_validator'.id = <<"validator-http_", candidate'[t].rule_id>>
    /\ pc[t] = "done" => (pc'[t] = "returned" /\ ret'[t] = ret[t])
    /\ pc[t] # "off" => pc'[t] # "off"

\* C24: validate_candidate resolves the candidate's rule to its validator and
\* invokes validate once; whatever validate returned, validate_candidate
\* returns Ok: an error of the validator (budget exhaustion, abort, unhandled
\* response, invalid URL) as ValidationError(kind), the category Valid as
\* Secret(category), Invalid as NotSecret and Inconclusive as Inconclusive.
C24_ValidationResult ==
    /\ [](WrappedResult(ScanCaller))
    /\ [][ValidateInvokedOnce(ScanCaller)]_vars

\* validate spent its budget waiting for the rate limiter and
\* validate_candidate returned Ok(ValidationError(RetryTimeExceeded)).
C24_Witness ==
    /\ pc[ScanCaller] = "returned"
    /\ ret[ScanCaller].kind = "RetryTimeExceeded"
    /\ validation.result = "Ok"
    /\ validation.value.kind = "ValidationError"
    /\ validation.value.error = "RetryTimeExceeded"


\* The node has an entry on the Rust side of the bridge.
InBridge(node) == \E i \in 1..Len(mirrored_im) : mirrored_im[i].key = node

\* The latest insert returned the id the node was first assigned.
InsertReturnsFirstId == op_ret.op = "insert" => op_ret.id = first_id[op_ret.node]

\* An insert of a node that is in the bridge returns the id it was first
\* assigned and changes neither side of the bridge.
ReinsertChangesNothing ==
    \A node \in TreeNodes :
        Insert(node) /\ InBridge(node) =>
            /\ op_ret'.id = first_id[node]
            /\ Len(mirrored_im') = Len(mirrored_im)
            /\ mirrored_im' = mirrored_im
            /\ v8_map' = v8_map

\* C25: TsNodeBridge.insert is idempotent: inserting a node that is already
\* in the bridge returns the NodeId it was first assigned, leaves len()
\* unchanged and adds no entry to the mirrored v8 map, whatever inserts came
\* before.
C25_InsertIdempotent == []InsertReturnsFirstId /\ [][ReinsertChangesNothing]_vars

\* foo was inserted first, two other nodes after it, and a second insert of
\* foo has returned 0 with three nodes in the bridge.
C25_Witness ==
    /\ op_ret.op = "insert"
    /\ op_ret.node = "foo"
    /\ op_ret.id = 0
    /\ Len(mirrored_im) = 3
    /\ DOMAIN v8_map = {0, 1, 2}

\* The op was called with an id the bridge has not assigned.
UnknownId(node_id) == ~(0 <= node_id /\ node_id < Len(mirrored_im))

\* An op that yields a node was given an id below len(), and yields the
\* node of that id.
OpYieldsOwnNode ==
    op_ret.op \in {"op_ts_node_text", "op_ts_node_children"} /\ op_ret.some =>
        /\ 0 <= op_ret.node_id /\ op_ret.node_id < Len(mirrored_im)
        /\ op_ret.node = mirrored_im[op_ret.node_id + 1].key
        /\ op_ret.op = "op_ts_node_text" => op_ret.text = NodeText(op_ret.node)

\* An op called with an unknown id returns None and leaves the bridge as
\* it was.
UnknownIdReturnsNone ==
    \A node_id \in NodeIds :
        (OpTsNodeText(node_id) \/ OpTsNodeChildren(node_id)) /\ UnknownId(node_id) =>
            /\ ~op_ret'.some
            /\ op_ret'.text = "" /\ op_ret'.ids = <<>>
            /\ mirrored_im' = mirrored_im
            /\ v8_map' = v8_map

Elements(vec) == {vec[i] : i \in 1..Len(vec)}

\* The rules listed for the line in lines_to_ignore_per_rule.
RulesOfLine(line) ==
    IF line \in DOMAIN lines_to_ignore_per_rule
    THEN Elements(lines_to_ignore_per_rule[line]) ELSE {}

\* C27: should_filter_rule(rule, line) is true if and only if ignore_file is
\* set, or rule is in rules_to_ignore, or line is in lines_to_ignore, or rule
\* is listed in lines_to_ignore_per_rule[line]; with ignore_file set every
\* rule is filtered on every line, and an entry for a line alone does not
\* filter the other rules on that line.
C27_ShouldFilterRule ==
    filtered # NoFilter =>
        /\ filtered.value <=>
              \/ ignore_file
              \/ filtered.rule_name \in Elements(rules_to_ignore)
              \/ filtered.line \in Elements(lines_to_ignore)
              \/ filtered.rule_name \in RulesOfLine(filtered.line)
        /\ ignore_file => filtered.value
        /\ (/\ ~ignore_file
            /\ rules_to_ignore = <<>>
            /\ lines_to_ignore = <<>>
            /\ filtered.rule_name \notin RulesOfLine(filtered.line))
              => ~filtered.value

\* Line 13 has an entry for ruleset/rule only, nothing else is ignored, and
\* foo/bar at line 13 was not filtered.
C27_Witness ==
    /\ filtered = [rule_name |-> "foo/bar", line |-> 13, value |-> FALSE]
    /\ 13 \in DOMAIN lines_to_ignore_per_rule
    /\ lines_to_ignore_per_rule[13] = <<"ruleset/rule">>
    /\ ~ignore_file


\* C28: parse_config_file rejects duplicate names: as soon as a ruleset name
\* has come twice under `rulesets` (list or map form), or a rule name twice
\* under one ruleset's `rules`, parsing has failed; no configuration is
\* returned after a later entry overwrote an earlier one.
C28_DuplicateNamesRejected ==
    /\ parsed.result = "Ok" => ~seen.ruleset_twice /\ ~seen.rule_twice
    /\ seen.ruleset_twice \/ seen.rule_twice => parsed.result = "Err"

\* A ruleset name that came twice has made parsing fail.
DuplicateRulesetRejected == seen.ruleset_twice => parsed.result = "Err"

\* A rule name that came twice in the map form has made parsing fail.
DuplicateRuleRejectedInMapForm ==
    rulesets_form = "map" /\ seen.rule_twice => parsed.result = "Err"

\* A list item's field came twice, or an unknown un-indented key came:
\* parsing has failed.
IllFormedItemRejected == ill_formed => parsed.result = "Err"

\* The list form has returned the rulesets of its map-form twin.
ListEqualsMap ==
    parsed.result = "Ok" /\ ~ill_formed =>
        twin.ok /\ parsed.rulesets = twin.out

\* C29: the legacy list form of `rulesets` parses to the same configuration
\* as the map form naming the same rulesets with the same fields (given
\* nested or un-indented), and an item with a field given both nested and
\* un-indented, or with an unknown un-indented key, is an error.
C29_ListFormEqualsMapForm == ListEqualsMap /\ IllFormedItemRejected


\* The answers of the classifier after which the loop goes on.
RetryActions == {a \in NextAction : a.kind \in {"Retry", "RetryAfter"}}

\* delay + max(0, h - next_delay) on RetryAfter(h), delay on Retry, where
\* delay is the element the attempt was started with and next_delay the
\* element after it (0 when there is none).
SleepOf(t, a) ==
    LET delay == delays[iter[t]]
        next_delay == IF iter[t] + 1 \in DOMAIN delays THEN delays[iter[t] + 1] ELSE 0
        extra == IF a.hint - next_delay > 0 THEN a.hint - next_delay ELSE 0
    IN  IF a.kind = "RetryAfter" THEN delay + extra ELSE delay

\* What a response classified Retry or RetryAfter does.
SleepAfterAttempt ==
    \A t \in Callers, r \in ResponseKinds, a \in RetryActions :
        Response(t, r, a) =>
            /\ to_sleep'[t] = SleepOf(t, a)
            /\ iter'[t] = iter[t]
            /\ pc'[t] = "retry_sleep" =>
                  /\ wake'[t] = now + SleepOf(t, a)
                  /\ slept'[t] = slept[t] + 1
                  /\ slept_for'[t] = slept_for[t] + SleepOf(t, a)
            /\ pc'[t] = "done" =>
                  /\ ret'[t].kind = "RetryWillExceedTime"
                  /\ ret'[t].next_delay = SleepOf(t, a)
            /\ iter[t] < Len(delays) => pc'[t] \in {"retry_sleep", "done"}
            /\ iter[t] = Len(delays) =>
                  /\ pc'[t] = "while"
                  /\ slept'[t] = slept[t]
                  /\ wake'[t] = wake[t]

\* After the last attempt the call does nothing but return
\* RetryAttemptsExceeded.
AfterLastAttempt ==
    \A t \in Callers :
        pc[t] = "while" /\ iter[t] = Len(delays) /\ pc'[t] # pc[t] =>
            /\ pc'[t] = "done"
            /\ ret'[t].kind = "RetryAttemptsExceeded"
            /\ slept'[t] = slept[t]

\* C30: on RetryAfter(h) the sleep after the attempt is to_sleep = delay +
\* max(0, h - next_delay), with delay the current element of the retry
\* sequence and next_delay the peeked next one (0 when there is none); on
\* Retry it is delay; peeking does not consume the next element; after the
\* last attempt nothing is slept and the call ends with
\* RetryAttemptsExceeded.
C30_SleepAfterAttempt == [][SleepAfterAttempt]_vars /\ [][AfterLastAttempt]_vars

\* A call sleeps after an attempt answered RetryAfter(h) with h above the
\* next delay: the sleep is the current delay plus the difference.
C30_Witness ==
    \E t \in Callers :
        /\ pc[t] = "retry_sleep"
        /\ last_action[t].kind = "RetryAfter"
        /\ iter[t] < Len(delays)
        /\ last_action[t].hint > delays[iter[t] + 1]
        /\ to_sleep[t] = delays[iter[t]] + last_action[t].hint - delays[iter[t] + 1]
        /\ wake[t] = now + to_sleep[t]


\* ------------------------------------------------- the rate-limit step

\* validate returns a time-budget error from the rate-limit loop.
ReturnsFromRateLimit(t) ==
    /\ pc[t] = "loop"
    /\ pc'[t] = "done"
    /\ ret'[t].kind \in TimeErrors

\* The limiter answers WaitUntil in this step, or has answered it earlier in
\* the call (and the call slept on it).
LimiterAnsweredWaitUntil(t) ==
    \/ \E w \in 1..MaxWait : LimiterRefuse(t, w)
    \/ rl_waits[t] > 0

\* C31: in the rate-limit step the limiter is queried first: on Ok the
\* attempt goes on to send its request, and RetryWillExceedTime or
\* RetryTimeExceeded is returned from the step only when the limiter has
\* answered WaitUntil.
C31_LimiterQueriedFirst ==
    [][\A t \in Callers :
         /\ LimiterOk(t) => pc'[t] = "send"
         /\ ReturnsFromRateLimit(t) => LimiterAnsweredWaitUntil(t)]_vars


\* What a refusal of the limiter with a wait of w does.
RateLimitWait ==
    \A t \in Callers, w \in 1..MaxWait :
        LimiterRefuse(t, w) =>
            IF (now - start_time[t]) + w <= max_attempt_duration
            THEN /\ pc'[t] = "rl_sleep"
                 /\ wake'[t] = now + w
                 /\ rl_waits'[t] = rl_waits[t] + 1
                 /\ ret'[t] = ret[t]
                 /\ attempted'[t] = attempted[t]
            ELSE /\ pc'[t] = "done"
                 /\ ret'[t].kind = "RetryWillExceedTime"
                 /\ ret'[t].next_delay = w
                 /\ ret'[t].attempted = attempted[t]
                 /\ attempted'[t] = attempted[t]
                 /\ wake'[t] = wake[t]
                 /\ rl_waits'[t] = rl_waits[t]

\* After the rate-limit sleep the loop goes round to the limiter.
QueriesAgain ==
    \A t \in Callers :
        pc[t] = "rl_sleep" /\ pc'[t] # pc[t] => pc'[t] = "loop"

\* A sleep in progress is scheduled to end within the budget.
SleepsEndWithinBudget ==
    \A t \in Callers :
        pc[t] \in {"rl_sleep", "retry_sleep"} =>
            wake[t] - start_time[t] <= max_attempt_duration

\* C32: when the limiter refuses with a wait w, validate sleeps w and goes
\* back to the limiter only if elapsed + w <= max_attempt_duration;
\* otherwise it returns RetryWillExceedTime with next_delay = w and the
\* attempt count unchanged, without sleeping.  No sleep, rate-limit or retry,
\* is started that is scheduled to end after max_attempt_duration.
C32_SleepsWithinBudget ==
    /\ [][RateLimitWait]_vars
    /\ [][QueriesAgain]_vars
    /\ []SleepsEndWithinBudget

\* A call that has sent a request sleeps on a refusal of the limiter, and the
\* sleep is scheduled to end exactly when the budget does.
C32_Witness ==
    \E t \in Callers :
        /\ pc[t] = "rl_sleep"
        /\ attempted[t] >= 1
        /\ max_attempt_duration >= 1
        /\ wake[t] - start_time[t] = max_attempt_duration


\* The errors that carry the `attempted` field.
BudgetErrors == {"RetryTimeExceeded", "RetryWillExceedTime", "RetryAttemptsExceeded"}

\* C33: the `attempted` field of every RetryTimeExceeded, RetryWillExceedTime
\* and RetryAttemptsExceeded error is the number of HTTP requests the call has
\* sent, whether they were answered or ended in a transport error; it is 0
\* when the call fails before its first request.
C33_AttemptedCountsRequests ==
    \A t \in Callers :
        pc[t] = "done" /\ ret[t].kind \in BudgetErrors =>
            /\ ret[t].attempted = sent[t]
            /\ permits[t] = 0 => ret[t].attempted = 0

\* A call that has sent two requests ends with RetryTimeExceeded carrying
\* attempted = 2.
C33_Witness ==
    \E t \in Callers :
        /\ pc[t] = "done"
        /\ ret[t].kind = "RetryTimeExceeded"
        /\ sent[t] = 2
        /\ ret[t].attempted = 2


\* ------------------------------------------ the input variable of a check

\* The target a check over input variable v is given.
TargetOf(v) ==
    IF v = <<"candidate">>
    THEN [kind |-> "Entire", name |-> "none"]
    ELSE [kind |-> "Capture", name |-> v[3]]

\* C34: a check whose input variable is neither `candidate` nor
\* `candidate.captures.<name>` makes try_build fail with RuleCompilationError
\* naming the rule; `candidate` yields a check targeted at the entire match
\* and `candidate.captures.<name>` one targeted at the named capture, and a
\* built rule has the checks of its rule file, in the order of the file.
C34_CheckInputVariable ==
    /\ \A i \in 1..consumed :
          ( /\ SourceReadable(i)
            /\ ~RepeatsRuleId(i)
            /\ RegexCompiles(SourceRule(i).pattern)
            /\ \E k \in 1..Len(SourceRule(i).checks) :
                  ~IsCandidateVariable(SourceRule(i).checks[k].input) ) =>
              /\ consumed = i
              /\ build_pc = "failed"
              /\ build_result = BuilderError("RuleCompilationError", SourceRule(i).id)
              /\ Len(built_rules) = i - 1
    /\ \A i \in 1..Len(built_rules) :
          LET raw == SourceRule(i).checks
              checks == built_rules[i].checks
          IN  /\ built_rules[i].rule_id = SourceRule(i).id
              /\ Len(checks) = Len(raw)
              /\ \A k \in 1..Len(raw) :
                    /\ IsCandidateVariable(raw[k].input)
                    /\ checks[k].target = TargetOf(raw[k].input)
                    /\ checks[k].check.op = raw[k].op
                    /\ checks[k].check.values = raw[k].values

\* try_build has failed on its second source, whose pattern compiles and
\* whose check is over a variable that is no candidate variable, after a
\* first source with a check on a capture and a check on the whole match.
C34_Witness ==
    /\ build_pc = "failed"
    /\ consumed = 2
    /\ Len(built_rules) = 1
    /\ Len(built_rules[1].checks) = 2
    /\ built_rules[1].checks[1].target.kind = "Capture"
    /\ built_rules[1].checks[2].target.kind = "Entire"
    /\ SourceReadable(2)
    /\ RegexCompiles(SourceRule(2).pattern)
    /\ \E k \in 1..Len(SourceRule(2).checks) :
          ~IsCandidateVariable(SourceRule(2).checks[k].input)
    /\ build_result = BuilderError("RuleCompilationError", SourceRule(2).id)


\* ------------------------------------------------ the ids of the bridge

\* The nodes in the bridge.
NodesInBridge == {n \in TreeNodes : InBridge(n)}

\* The NodeIds in use are 0..len()-1.
IdsInUse ==
    {get_id(TheBridge, n) : n \in NodesInBridge} = 0..(len(TheBridge) - 1)

\* get_raw and get_id are inverse of each other.
LookupsInverse ==
    /\ \A n \in NodesInBridge : get_raw(TheBridge, get_id(TheBridge, n)) = n
    /\ \A i \in 0..(len(TheBridge) - 1) : get_id(TheBridge, get_raw(TheBridge, i)) = i
    /\ \A n \in TreeNodes \ NodesInBridge : get_id(TheBridge, n) = NoId

\* A node has the id it was given when it was first inserted.
IdsAsFirstInserted == \A n \in TreeNodes : get_id(TheBridge, n) = first_id[n]

\* The id of a node that is inserted while k nodes are in the bridge is k.
NewIdsInOrder ==
    /\ \A node \in TreeNodes :
          Insert(node) /\ node \notin NodesInBridge =>
              op_ret'.id = Cardinality(NodesInBridge)
    /\ \A n \in TreeNodes :
          InsertCapture(Single(n)) /\ n \notin NodesInBridge =>
              op_ret'.id = Cardinality(NodesInBridge)
    /\ \A n \in TreeNodes, m \in TreeNodes :
          InsertCapture(Multi(<<n, m>>)) =>
              /\ n \notin NodesInBridge => op_ret'.ids[1] = Cardinality(NodesInBridge)
              /\ m \notin NodesInBridge \cup {n} =>
                    op_ret'.ids[2] = Cardinality(NodesInBridge \cup {n})
              /\ m = n => op_ret'.ids[2] = op_ret'.ids[1]

\* Unless the bridge is cleared, a node in the bridge keeps its id.
ExistingIdsKept ==
    \A n \in NodesInBridge :
        mirrored_im' # <<>> =>
            get_id(Bridge(mirrored_im', v8_map'), n) = get_id(TheBridge, n)

\* C35: after any sequence of insert, insert_capture and clear the NodeIds in
\* use are exactly 0..len()-1, assigned in order of first insertion since the
\* last clear; get_raw(get_id(n)) = n for every node n in the bridge and
\* get_id(get_raw(i)) = i for every i < len(); inserting a node never changes
\* the id of a node already in the bridge.
C35_IdsAreIndices ==
    /\ [](IdsInUse /\ LookupsInverse /\ IdsAsFirstInserted)
    /\ [][NewIdsInOrder /\ ExistingIdsKept]_vars

\* baz was inserted first, and a capture of foo and bar has then been given
\* the ids 1 and 2.
C35_Witness ==
    /\ op_ret.op = "insert_capture"
    /\ op_ret.ids = <<1, 2>>
    /\ get_id(TheBridge, "baz") = 0
    /\ get_raw(TheBridge, 1) = "foo"
    /\ get_raw(TheBridge, 2) = "bar"
    /\ len(TheBridge) = 3


\* ---------------------------------------------- the two sides of the bridge

\* The v8 map has an entry for id i exactly when i < len(), and the entry is
\* the TreeSitterNode object of the node get_raw(i), with id i.
SidesInSync ==
    /\ DOMAIN v8_map = 0..(len(TheBridge) - 1)
    /\ \A i \in 0..(len(TheBridge) - 1) :
          /\ v8_map[i].node = get_raw(TheBridge, i)
          /\ v8_map[i].id = i

\* clear has emptied both sides.
ClearEmpties ==
    op_ret.op = "clear" =>
        /\ is_empty(TheBridge)
        /\ mirrored_im = <<>>
        /\ DOMAIN v8_map = {}

\* The node inserted next after a clear gets id 0.
FirstIdAfterClear ==
    /\ \A node \in TreeNodes :
          op_ret.op = "clear" /\ Insert(node) =>
              /\ op_ret'.id = 0
              /\ v8_map' = (0 :> build_v8_node(node, 0))
    /\ \A capture \in Captures :
          op_ret.op = "clear" /\ InsertCapture(capture) /\ capture.nodes # <<>> =>
              /\ get_raw(Bridge(mirrored_im', v8_map'), 0) = capture.nodes[1]
              /\ v8_map'[0] = build_v8_node(capture.nodes[1], 0)

\* C36: the Rust side and the v8 side of the TsNodeBridge are in sync after
\* every operation: the v8 map has an entry for id i if and only if
\* i < len(), and that entry describes the node get_raw(i); clear empties
\* both sides, after which is_empty() holds and the next inserted node gets
\* id 0.
C36_SidesInSync ==
    /\ [](SidesInSync /\ ClearEmpties)
    /\ [][FirstIdAfterClear]_vars

\* baz is the only node of the bridge: both sides have it under id 0 and the
\* v8 map has no entry for id 1.
C36_Witness ==
    /\ op_ret.op = "insert"
    /\ op_ret.node = "baz"
    /\ op_ret.id = 0
    /\ get_raw(TheBridge, 0) = "baz"
    /\ v8_map[0] = build_v8_node("baz", 0)
    /\ 1 \notin DOMAIN v8_map


\* ------------------------------------------------- op_ts_node_children

\* The children of a node that are not in the bridge, in child order.
NewChildren(node) == SelectSeq(Children(node), LAMBDA c : c \notin NodesInBridge)

\* What op_ts_node_children does when called with node_id.
ChildrenOp ==
    \A node_id \in NodeIds :
        OpTsNodeChildren(node_id) =>
            IF UnknownId(node_id)
            THEN /\ ~op_ret'.some
                 /\ op_ret'.ids = <<>>
                 /\ mirrored_im' = mirrored_im
                 /\ v8_map' = v8_map
            ELSE LET node == mirrored_im[node_id + 1].key
                     children == Children(node)
                     added == NewChildren(node)
                     after == Bridge(mirrored_im', v8_map')
                 IN  IF children = <<>>
                     THEN /\ ~op_ret'.some
                          /\ op_ret'.ids = <<>>
                          /\ mirrored_im' = mirrored_im
                          /\ v8_map' = v8_map
                     ELSE /\ op_ret'.some
                          /\ Len(op_ret'.ids) = Len(children)
                          /\ \A k \in 1..Len(children) :
                                /\ get_raw(after, op_ret'.ids[k]) = children[k]
                                /\ children[k] \in NodesInBridge =>
                                      op_ret'.ids[k] = get_id(TheBridge, children[k])
                          /\ Len(mirrored_im') = Len(mirrored_im) + Len(added)
                          /\ \A j \in 1..Len(added) :
                                get_id(after, added[j]) = Len(mirrored_im) + j - 1
                          /\ \A n \in NodesInBridge :
                                get_id(after, n) = get_id(TheBridge, n)
                          /\ SubSeq(mirrored_im', 1, Len(mirrored_im)) = mirrored_im
                          /\ \A i \in DOMAIN v8_map : v8_map'[i] = v8_map[i]

\* C37: op_ts_node_children returns None when the node id is unknown or the
\* node has no children, and then leaves the bridge unchanged; otherwise it
\* returns one id per child in child order, inserting only the children that
\* are not in the bridge, which get the next consecutive ids, and reusing the
\* id of the children already there, without altering any existing id.
C37_ChildrenOp == [][ChildrenOp]_vars

\* With bar and call in the bridge, op_ts_node_children(1) has returned the
\* ids 2, 0 and 3: foo and baz were inserted, bar kept its id.
C37_Witness ==
    /\ op_ret.op = "op_ts_node_children"
    /\ op_ret.node_id = 1
    /\ op_ret.node = "call"
    /\ op_ret.ids = <<2, 0, 3>>
    /\ get_id(TheBridge, "bar") = 0
    /\ len(TheBridge) = 4


\* ------------------------------------------ ignore and ignore-paths

\* The path prefixes of a Vec<PathPattern>.
Prefixes(patterns) == [i \in 1..Len(patterns) |-> patterns[i].prefix]

\* What parse_config_file returns for a document.
MergesIgnorePaths ==
    \A contents \in ConfigContents :
        ParseConfigFile(contents) =>
            /\ ~contents.rulesets.given => parsed'.result = "Err"
            /\ contents.rulesets.given /\ contents.rulesets.value.ok =>
                  /\ parsed'.result = "Ok"
                  /\ Prefixes(parsed'.config_file.paths.ignore) =
                        contents.ignore.value \o contents.ignore_paths.value
                  /\ parsed'.config_file.paths.only.some = contents.only.given
                  /\ Prefixes(parsed'.config_file.paths.only.value) = contents.only.value
                  /\ parsed'.config_file.ignore_gitignore.some = contents.ignore_gitignore.given
                  /\ contents.ignore_gitignore.given =>
                        parsed'.config_file.ignore_gitignore.value =
                            contents.ignore_gitignore.value
                  /\ parsed'.config_file.max_file_size_kb.some = contents.max_file_size_kb.given
                  /\ contents.max_file_size_kb.given =>
                        parsed'.config_file.max_file_size_kb.value =
                            contents.max_file_size_kb.value

\* C38: when a configuration file has both `ignore` and the legacy
\* `ignore-paths`, ConfigFile.paths.ignore is the `ignore` entries followed by
\* the `ignore-paths` entries, in file order, with nothing dropped or
\* deduplicated; `only`, `ignore-gitignore` and `max-file-size-kb` are carried
\* over unchanged, and a file without `rulesets` is rejected.
C38_IgnorePathsAppended == [][MergesIgnorePaths]_vars

\* A file with `ignore: [path1]` and `ignore-paths: ["**/test/**", path1]`
\* has been parsed: path1 is in paths.ignore twice, first and last.
C38_Witness ==
    /\ parsed.result = "Ok"
    /\ Prefixes(parsed.config_file.paths.ignore) = <<"path1", "**/test/**", "path1">>
    /\ parsed.config_file.paths.only.some
    /\ parsed.config_file.ignore_gitignore = Some(FALSE)
    /\ parsed.config_file.max_file_size_kb = Some(512)
    /\ parsed.config_file.rulesets = MapInsert(<<>>, "python-security", RulesetConfigDefault)


\* ------------------------------------------------ the diff-aware digest

\* Two configurations agree on the ignore paths, the only paths,
\* ignore_gitignore, the rules' config hash strings in order,
\* max_file_size_kb and source_subdirectories.
Agree(c, d) ==
    /\ c.path_config.ignore = d.path_config.ignore
    /\ c.path_config.only = d.path_config.only
    /\ c.ignore_gitignore = d.ignore_gitignore
    /\ Len(c.rules) = Len(d.rules)
    /\ \A i \in 1..Len(c.rules) :
          get_config_hash_string(c.rules[i]) = get_config_hash_string(d.rules[i])
    /\ c.max_file_size_kb = d.max_file_size_kb
    /\ c.source_subdirectories = d.source_subdirectories

\* C39: generate_diff_aware_digest is a function of the ignore paths, the
\* only paths, ignore_gitignore, the rules' config hash strings (in order),
\* max_file_size_kb and source_subdirectories alone: a configuration that
\* agrees on these with the configuration of the call before has the same
\* digest, whatever the other fields of the two are.
C39_DigestOfRelevantFields ==
    [][(digest # NoDigest /\ Agree(cli_configuration, cli_configuration')) =>
           digest' = digest]_vars

\* The digest of a configuration that differs from another one in use_staging
\* and in the code of a rule is the digest of that other one.
C39_Witness ==
    /\ digest # NoDigest
    /\ cli_configuration.use_staging
    /\ cli_configuration.rules = <<MyRuleEdited, OtherRule>>
    /\ \E c \in CliConfigurations :
          /\ ~c.use_staging
          /\ c.rules = <<MyRule, OtherRule>>
          /\ Agree(c, cli_configuration)
          /\ digest = generate_diff_aware_digest(c)

=============================================================================
